---- MODULE Spec2Model ----
(***************************************************************************)
(* Verification model of the phonosyne DSP core:                           *)
(*   - NoiseGate.process_sample        (dsp/effects/noise_gate.py)         *)
(*   - validate_wav                    (dsp/validators.py)                 *)
(*   - MFNGraph / MFN builder / block kernels / RMS watchdog               *)
(*                                     (dsp/effects/feedback_network.py)   *)
(*   - the mastering chain             (dsp/master.py)                     *)
(*   - delay, modulated-delay, compressor and other effect calls           *)
(*                                     (dsp/effects/*.py)                  *)
(*                                                                         *)
(* Real numbers are carried as exact fixed-point integers.  Each component *)
(* has its own specification (SpecGate, SpecWav, SpecGraph, SpecMFN, ...); *)
(* the variables of the other components stay at their initial values.     *)
(***************************************************************************)
EXTENDS Integers, Sequences, FiniteSets, TLC

VARIABLES
    \* noise gate
    gate, prevState, sinceArm, lastSample, gateOut,
    \* WAV validator
    vfile, vspec, vresult,
    \* MFN graph construction
    builder, graph, ctor, raised,
    \* MFN block engine
    mfn,
    \* one top-level call of an effect function or of the mastering chain
    fx

gateVars == <<gate, prevState, sinceArm, lastSample, gateOut>>

wavVars == <<vfile, vspec, vresult>>

graphVars == <<builder, graph, ctor, raised>>

mfnVars == <<mfn>>

fxVars == <<fx>>

vars == <<gateVars, wavVars, graphVars, mfnVars, fxVars>>

----------------------------------------------------------------------------
(* Values of a component's variables while another component is explored   *)

GateIdle ==
    /\ gate = [state |-> "none"]
    /\ prevState = "none"
    /\ sinceArm = 0
    /\ lastSample = 0
    /\ gateOut = 0

WavIdle ==
    /\ vfile = [kind |-> "none"]
    /\ vspec = [duration |-> 0]
    /\ vresult = [kind |-> "none", errors |-> <<>>]

NoGraph == [kind |-> "none"]

GraphIdle ==
    /\ builder = [kind |-> "none"]
    /\ graph = NoGraph
    /\ ctor = [called |-> FALSE]
    /\ raised = "none"

MfnIdle == mfn = [pc |-> "idle"]

FxIdle == fx = [call |-> "none"]

----------------------------------------------------------------------------
(* Generic helpers                                                         *)

Abs(x) == IF x < 0 THEN -x ELSE x

Max2(a, b) == IF a >= b THEN a ELSE b

Min2(a, b) == IF a <= b THEN a ELSE b

RECURSIVE Fact(_)
Fact(n) == IF n <= 1 THEN 1 ELSE n * Fact(n - 1)

\* numpy.clip(x, lo, hi) == minimum(maximum(x, lo), hi)
np_clip(x, lo, hi) == Min2(Max2(x, lo), hi)

----------------------------------------------------------------------------
(* Noise gate                                                              *)

\* Largest attack / hold / release length (in samples) that is explored.
MaxGateSamples == 2

\* Gains are exact multiples of 1/GainOne.  GainOne - attenuation is a
\* multiple of every ramp length in 1..MaxGateSamples, so the linear ramps
\* of process_sample are computed without rounding.
GainUnit == Fact(MaxGateSamples)

GainOne == 2 * GainUnit

\* Signal levels (samples, envelope, threshold) are in 1/EnvOne units.
EnvOne == 10 * 10 * 10

\* attenuation_lin = 10 ** (attenuation_db / 20): 0.5 (about -6 dB),
\* 1.0 (0 dB) and 1.5 (about +3.5 dB, attenuation_db > 0).
AttenuationSet == {GainUnit, GainOne, 3 * GainUnit}

\* threshold_lin = 10 ** (threshold_db / 20)
ThresholdSet == {250, 600}

\* input samples offered to process_sample
GateSampleSet == {-1000, 0, 400, 1000}

GateSamplesRange == 0 .. MaxGateSamples

\* np.exp(-1.0 / (n * 0.5)) in 1/EnvOne units, n = max(1, samples)
EnvCoeff(n) ==
    CASE n = 1 -> 135
      [] n = 2 -> 368
      [] n = 3 -> 513
      [] n = 4 -> 607
      [] n = 5 -> 670
      [] OTHER -> 717

env_attack_coeff(g) == EnvCoeff(Max2(1, g.attack_samples))

env_release_coeff(g) == EnvCoeff(Max2(1, g.release_samples))

\* NoiseGate.__init__: the state right after construction
NoiseGate_init(thr, att_s, hold_s, rel_s, att_lin) ==
    [ threshold_lin    |-> thr,
      attack_samples   |-> att_s,
      hold_samples     |-> hold_s,
      release_samples  |-> rel_s,
      attenuation_lin  |-> att_lin,
      envelope         |-> 0,
      gain             |-> GainOne,
      state            |-> "closed",
      samples_in_state |-> 0 ]

\* envelope detector of process_sample (one-pole smoother)
update_envelope(g, sample) ==
    LET input_level_lin == Abs(sample)
        c == IF input_level_lin > g.envelope
                THEN env_attack_coeff(g)
                ELSE env_release_coeff(g)
    IN  (c * g.envelope + (EnvOne - c) * input_level_lin) \div EnvOne

\* state "closed"; floor is the closed-gate gain read by the branch
closed_branch(g, floor) ==
    IF g.envelope > g.threshold_lin
       THEN [g EXCEPT !.state = "attack", !.samples_in_state = 0, !.gain = floor]
       ELSE [g EXCEPT !.gain = floor]

attack_branch_to_closed(g, floor) ==
    LET n  == g.samples_in_state + 1
        gn == IF g.attack_samples > 0
                 THEN floor + ((GainOne - floor) * n) \div g.attack_samples
                 ELSE GainOne
    IN  IF gn >= GainOne
           THEN [g EXCEPT !.gain = GainOne, !.state = "hold", !.samples_in_state = 0]
           ELSE IF g.envelope <= g.threshold_lin
                   THEN [g EXCEPT !.gain = gn, !.state = "closed", !.samples_in_state = 0]
                   ELSE [g EXCEPT !.gain = gn, !.samples_in_state = n]

\* state "attack"
attack_branch(g, floor) ==
    LET n  == g.samples_in_state + 1
        gn == IF g.attack_samples > 0
                 THEN floor + ((GainOne - floor) * n) \div g.attack_samples
                 ELSE GainOne
    IN  IF gn >= GainOne
           THEN [g EXCEPT !.gain = GainOne, !.state = "hold", !.samples_in_state = 0]
           ELSE IF g.envelope <= g.threshold_lin
                   THEN [g EXCEPT !.gain = gn, !.state = "release", !.samples_in_state = 0]
                   ELSE [g EXCEPT !.gain = gn, !.samples_in_state = n]

hold_branch_ge(g) ==
    LET n == g.samples_in_state + 1
    IN  IF g.envelope <= g.threshold_lin
           THEN IF n >= g.hold_samples
                   THEN [g EXCEPT !.gain = GainOne, !.state = "release", !.samples_in_state = 0]
                   ELSE [g EXCEPT !.gain = GainOne, !.samples_in_state = n]
           ELSE [g EXCEPT !.gain = GainOne, !.samples_in_state = 0]

\* state "hold"
hold_branch(g) ==
    LET n == g.samples_in_state + 1
    IN  IF g.envelope <= g.threshold_lin
           THEN IF n > g.hold_samples
                   THEN [g EXCEPT !.gain = GainOne, !.state = "release", !.samples_in_state = 0]
                   ELSE [g EXCEPT !.gain = GainOne, !.samples_in_state = n]
           ELSE [g EXCEPT !.gain = GainOne, !.samples_in_state = 0]

\* state "release"
release_branch(g, floor) ==
    LET n  == g.samples_in_state + 1
        gn == IF g.release_samples > 0
                 THEN GainOne - ((GainOne - floor) * n) \div g.release_samples
                 ELSE floor
    IN  IF gn <= floor
           THEN [g EXCEPT !.gain = floor, !.state = "closed", !.samples_in_state = 0]
           ELSE IF g.envelope > g.threshold_lin
                   THEN [g EXCEPT !.gain = gn, !.state = "attack", !.samples_in_state = 0]
                   ELSE [g EXCEPT !.gain = gn, !.samples_in_state = n]

\* process_sample with the closed-gate gain passed explicitly
process_sample_with(g0, sample, floor) ==
    LET g  == [g0 EXCEPT !.envelope = update_envelope(g0, sample)]
        g1 == CASE g.state = "closed"  -> closed_branch(g, floor)
                [] g.state = "attack"  -> attack_branch(g, floor)
                [] g.state = "hold"    -> hold_branch(g)
                [] g.state = "release" -> release_branch(g, floor)
    IN  [g1 EXCEPT !.gain = np_clip(g1.gain, floor, GainOne)]

\* a gate that closes to silence instead of to attenuation_lin
process_sample_floor0(g, sample) == process_sample_with(g, sample, 0)

\* NoiseGate.process_sample: the new gate state; it returns sample * gain
process_sample(g, sample) == process_sample_with(g, sample, g.attenuation_lin)

InitGate ==
    /\ WavIdle /\ GraphIdle /\ MfnIdle /\ FxIdle
    /\ \E thr \in ThresholdSet, a \in GateSamplesRange, h \in GateSamplesRange,
          r \in GateSamplesRange, att \in AttenuationSet :
          gate = NoiseGate_init(thr, a, h, r, att)
    /\ prevState = "closed"
    /\ sinceArm = 0
    /\ lastSample = 0
    /\ gateOut = 0

\* one call of process_sample.  prevState is the local current_state of the
\* call (the state it started in).  sinceArm is a history variable: the
\* number of samples processed since the gate entered hold or, if later,
\* since the last sample on which the envelope was above the threshold.
GateProcessSample ==
    \E s \in GateSampleSet :
       LET g2 == process_sample(gate, s)
       IN  /\ UNCHANGED <<wavVars, graphVars, mfnVars, fxVars>>
           /\ gate' = g2
           /\ prevState' = gate.state
           /\ lastSample' = s
           /\ gateOut' = s * g2.gain
           /\ sinceArm' = IF gate.state = "hold"
                             THEN IF g2.envelope > g2.threshold_lin
                                     THEN 0 ELSE sinceArm + 1
                             ELSE 0

NextGate == GateProcessSample

SpecGate == InitGate /\ [][NextGate]_vars

----------------------------------------------------------------------------
(* Noise gate: properties                                                  *)

FourTransitions ==
    { <<"closed", "attack">>, <<"attack", "hold">>,
      <<"hold", "release">>, <<"release", "closed">> }

SixTransitions ==
    FourTransitions \cup { <<"attack", "release">>, <<"release", "attack">> }

\* C1 (as stated): every change of the gate state made by process_sample is
\* one of closed->attack, attack->hold, hold->release, release->closed.
C1_OnlyFourTransitions ==
    prevState # gate.state => <<prevState, gate.state>> \in FourTransitions

\* C1 (amended): every change of the gate state made by process_sample is one
\* of closed->attack, attack->hold, hold->release, release->closed,
\* attack->release (envelope falls to or below the threshold before the
\* attack ramp completes) or release->attack (envelope rises above the
\* threshold before the release ramp completes); no other change occurs.
C1_OnlySixTransitions ==
    prevState # gate.state => <<prevState, gate.state>> \in SixTransitions

\* an attack that was cut short: the gate went from attack to release
C1_Witness == prevState = "attack" /\ gate.state = "release"

\* C2: for attenuation_db <= 0 (attenuation_lin <= 1.0) the gain multiplied
\* into the sample lies in [attenuation_lin, 1.0] after every call, in every
\* state and on every state transition.
C2_GainWithinRange ==
    gate.attenuation_lin <= GainOne =>
        /\ gate.attenuation_lin <= gate.gain
        /\ gate.gain <= GainOne
        /\ gateOut = lastSample * gate.gain

\* a sample on which the state changed while the gain was strictly inside
\* the range (an unfinished ramp)
C2_Witness ==
    /\ gate.attenuation_lin < GainOne
    /\ prevState # gate.state
    /\ gate.attenuation_lin < gate.gain
    /\ gate.gain < GainOne
    /\ lastSample # 0

\* C3: in hold the applied gain is 1.0; the gate leaves hold only to release
\* and only on a sample whose envelope is at or below the threshold and after
\* more than hold_samples samples since it entered hold or since the envelope
\* was last above the threshold; an above-threshold sample in hold keeps the
\* gate in hold and restarts the count.
C3_HoldBehaviour ==
    /\ gate.state = "hold" => gate.gain = GainOne
    /\ (prevState = "hold" /\ gate.state # "hold") =>
          /\ gate.state = "release"
          /\ gate.gain = GainOne
          /\ gate.envelope <= gate.threshold_lin
          /\ sinceArm > gate.hold_samples
    /\ (prevState = "hold" /\ gate.envelope > gate.threshold_lin) =>
          /\ gate.state = "hold"
          /\ gate.samples_in_state = 0
          /\ sinceArm = 0

\* the gate has just left a hold of at least one sample
C3_Witness ==
    /\ prevState = "hold"
    /\ gate.state = "release"
    /\ gate.hold_samples >= 1
    /\ sinceArm = gate.hold_samples + 1

----------------------------------------------------------------------------
(* WAV validator                                                           *)
(* Durations are in milliseconds, linear amplitudes in millionths of full  *)
(* scale, levels in hundredths of a dB.                                    *)

\* settings.DEFAULT_SR
DEFAULT_SR == 48000

\* settings.TARGET_PEAK_DBFS (-0.1 dBFS) in hundredths of a dB
TARGET_PEAK_DBFS == -10

\* settings.DURATION_TOLERANCE_S (2 s) in milliseconds
DURATION_TOLERANCE_S == 2000

\* settings.SILENCE_THRESHOLD_LINEAR (10 ** (-100 / 20)) in millionths
SILENCE_THRESHOLD_LINEAR == 10

FILTER_LOW_CUT_HZ == 20

FILTER_HIGH_CUT_HZ == 20000

FILTER_ORDER == 4

\* -np.inf
NegInf == -(10 ^ 9)

\* peak amplitudes of the files explored: digital silence, 5e-6 (below the
\* silence floor), -1.2 dBFS, -0.5 dBFS and -0.05 dBFS
PeakSet == {0, 5, 870964, 944061, 994260}

\* peak of the band-passed signal; -1 stands for butter/sosfiltfilt raising
BandPeakSet == {-1, 0, 5, 870964}

\* 20 * np.log10(peak_linear) in hundredths of a dB
log10_db(lin) ==
    CASE lin = 5      -> -10602
      [] lin = 870964 -> -120
      [] lin = 944061 -> -50
      [] lin = 994260 -> -5
      [] OTHER        -> 0

WavSampleRates == {30, 24000, 48000}

WavFrameCounts == {0, 12, 14400, 48000, 168000}

\* what is on disk at file_path
WavFiles ==
    { [kind |-> k] : k \in {"missing", "directory", "corrupt"} }
    \cup
    { f \in [ kind : {"ok"}, samplerate : WavSampleRates, frames : WavFrameCounts,
              subtype : {"FLOAT", "PCM_16"}, channels : {1, 2},
              read_ok : BOOLEAN, peak : PeakSet, band_peak : BandPeakSet ] :
        /\ (f.frames = 0 => f.peak = 0)
        /\ (f.peak = 0 => f.band_peak = 0) }

\* the target spec handed to validate_wav
WavSpecs ==
    [ duration : {1000, 5000}, sample_rate : {24000, 48000},
      tolerance : {500, 2000}, peak_ceiling : {-100, -10} ]

\* info.duration = frames / samplerate
info_duration(f) == (f.frames * 1000) \div f.samplerate

add_error_overwrite(errors, msg) == <<msg>>

\* errors.append(msg)
add_error(errors, msg) == Append(errors, msg)

\* checks 1-4: sample rate, duration, subtype, channels
metadata_checks(f, spec) ==
    LET expected_sr == DEFAULT_SR
        e1 == IF f.samplerate # expected_sr
                 THEN add_error(<<>>, "sample_rate") ELSE <<>>
        expected_duration == spec.duration
        duration_tolerance == DURATION_TOLERANCE_S
        lower_bound == expected_duration - duration_tolerance
        upper_bound == expected_duration + duration_tolerance
        e2 == IF ~(lower_bound <= info_duration(f) /\ info_duration(f) <= upper_bound)
                 THEN add_error(e1, "duration") ELSE e1
        e3 == IF f.subtype # "FLOAT" THEN add_error(e2, "subtype") ELSE e2
    IN  IF f.channels # 1 THEN add_error(e3, "channels") ELSE e3

\* check 5: peak level of the samples read (np.max of an empty array raises)
peak_check(f, errors) ==
    IF f.frames = 0
       THEN add_error(errors, "peak_error")
       ELSE LET peak_linear == f.peak
                peak_dbfs == IF peak_linear = 0 THEN NegInf ELSE log10_db(peak_linear)
            IN  IF peak_dbfs > TARGET_PEAK_DBFS
                   THEN add_error(errors, "peak_too_high") ELSE errors

\* the signal the silence check looks at: band-passed when the cutoffs
\* (cut / nyquist, here in 1/10000) are valid for the file's rate, the signal
\* is long enough and the filter runs
audio_for_silence_check(f) ==
    LET low0  == (FILTER_LOW_CUT_HZ * 2 * 10000) \div f.samplerate
        high0 == (FILTER_HIGH_CUT_HZ * 2 * 10000) \div f.samplerate
        high_norm == IF high0 >= 10000 THEN 9990 ELSE high0
        low_norm  == IF low0 <= 0 THEN 1 ELSE low0
        min_len_for_filter == 3 * FILTER_ORDER
    IN  IF /\ f.frames > 0
           /\ low_norm < high_norm
           /\ f.frames > min_len_for_filter
           /\ f.band_peak # -1
           THEN f.band_peak
           ELSE f.peak

\* check 6: silence after band-limiting
silence_check(f, errors) ==
    IF f.frames = 0
       THEN add_error(errors, "silence_error")
       ELSE IF audio_for_silence_check(f) < SILENCE_THRESHOLD_LINEAR
               THEN add_error(errors, "silent") ELSE errors

\* validate_wav(file_path, spec): what the call raises or returns
validate_wav(f, spec) ==
    IF f.kind \in {"missing", "directory"}
       THEN [kind |-> "FileNotFoundError", errors |-> <<>>]
    ELSE IF f.kind = "corrupt"
       THEN [kind |-> "ValidationFailedError", errors |-> <<"info_unreadable">>]
    ELSE LET e4 == metadata_checks(f, spec)
             errors == IF ~f.read_ok
                          THEN add_error(e4, "read_error")
                          ELSE silence_check(f, peak_check(f, e4))
         IN  IF errors # <<>>
                THEN [kind |-> "ValidationFailedError", errors |-> errors]
                ELSE [kind |-> "success", errors |-> <<>>]

\* a file on disk and a target spec, before the call
InitWav ==
    /\ GateIdle /\ GraphIdle /\ MfnIdle /\ FxIdle
    /\ vfile \in WavFiles
    /\ vspec \in WavSpecs
    /\ vresult = [kind |-> "none", errors |-> <<>>]

\* the call validate_wav(file_path, spec)
ValidateWav ==
    /\ UNCHANGED <<gateVars, graphVars, mfnVars, fxVars>>
    /\ vresult.kind = "none"
    /\ vfile.kind # "none"
    /\ UNCHANGED <<vfile, vspec>>
    /\ vresult' = validate_wav(vfile, vspec)

NextWav == ValidateWav

SpecWav == InitWav /\ [][NextWav]_vars

----------------------------------------------------------------------------
(* WAV validator: properties                                               *)

Range(seq) == { seq[i] : i \in 1 .. Len(seq) }

\* the conformance check a reason in the message belongs to
CheckOf(reason) ==
    CASE reason = "sample_rate"   -> "sample rate"
      [] reason = "duration"      -> "duration"
      [] reason = "subtype"       -> "subtype"
      [] reason = "channels"      -> "channel count"
      [] reason = "peak_too_high" -> "peak"
      [] reason = "peak_error"    -> "peak"
      [] reason = "silent"        -> "silence"
      [] reason = "silence_error" -> "silence"
      [] OTHER                    -> "none"

\* the file's metadata and samples can both be read
Readable(f) == f.kind = "ok" /\ f.read_ok

\* the checks a readable file does not pass, judged against the targets the
\* validator uses (rate, tolerance and ceiling of settings, duration of spec)
FailedChecks(f, spec) ==
    { c \in {"sample rate", "duration", "subtype", "channel count", "peak", "silence"} :
        \/ c = "sample rate" /\ f.samplerate # DEFAULT_SR
        \/ c = "duration" /\ Abs(info_duration(f) - spec.duration) > DURATION_TOLERANCE_S
        \/ c = "subtype" /\ f.subtype # "FLOAT"
        \/ c = "channel count" /\ f.channels # 1
        \/ c = "peak" /\ (f.frames = 0 \/ (f.peak # 0 /\ log10_db(f.peak) > TARGET_PEAK_DBFS))
        \/ c = "silence" /\ (f.frames = 0 \/ audio_for_silence_check(f) < SILENCE_THRESHOLD_LINEAR) }

\* C4: on every readable file all six checks are evaluated; the call raises
\* one ValidationFailedError whose message has exactly one reason for each
\* failed check and none for a passing check, and it returns success if and
\* only if no check failed.
C4_AllFailuresCollected ==
    (vresult.kind # "none" /\ Readable(vfile)) =>
        /\ vresult.kind \in {"success", "ValidationFailedError"}
        /\ { CheckOf(r) : r \in Range(vresult.errors) } = FailedChecks(vfile, vspec)
        /\ Len(vresult.errors) = Cardinality(FailedChecks(vfile, vspec))
        /\ (vresult.kind = "success" <=> FailedChecks(vfile, vspec) = {})

\* a readable file that fails three checks at once
C4_Witness ==
    /\ Readable(vfile)
    /\ vresult.kind = "ValidationFailedError"
    /\ Len(vresult.errors) >= 3

\* C5 (as stated): the file is judged against the targets carried by the spec
\* argument: sample rate, duration, tolerance and peak ceiling.
C5_JudgedAgainstSpecArgument ==
    (vresult.kind # "none" /\ Readable(vfile) /\ vfile.frames > 0) =>
        /\ ("sample_rate" \in Range(vresult.errors)
              <=> vfile.samplerate # vspec.sample_rate)
        /\ ("duration" \in Range(vresult.errors)
              <=> Abs(info_duration(vfile) - vspec.duration) > vspec.tolerance)
        /\ ("peak_too_high" \in Range(vresult.errors)
              <=> (vfile.peak # 0 /\ log10_db(vfile.peak) > vspec.peak_ceiling))

\* C6 (as stated): a missing file or unreadable metadata raises an error of a
\* type other than the one raised for conformance failures.
C6_IOErrorIsDistinctType ==
    (vresult.kind # "none" /\ vfile.kind \in {"missing", "directory", "corrupt"}) =>
        vresult.kind \notin {"success", "ValidationFailedError"}

----------------------------------------------------------------------------
(* Multi-feedback network: graph construction                              *)
(* chaos_level is carried in tenths.                                       *)

\* longest node list handed to MFNGraph(...)
MaxCtorNodes == 2

\* longest connection list handed to MFNGraph(...)
MaxCtorConns == 1

NodeIds == {"a", "b"}

\* ids a connection may name; "z" is never a node
ConnIds == NodeIds \cup {"z"}

ChaosArgs == {-1, 0, 5, 10, 11}

\* MFNNode(id, delay_samples, gain)
MFNNode(id, delay_samples, g) ==
    [id |-> id, delay_samples |-> delay_samples, gain |-> g]

\* MFNConnection(source_id, target_id, gain, delay_samples)
MFNConnection(source_id, target_id, g, delay_samples) ==
    [source_id |-> source_id, target_id |-> target_id, gain |-> g,
     delay_samples |-> delay_samples]

SeqsUpTo(S, n) == UNION { [1 .. k -> S] : k \in 0 .. n }

conn_ids_known_source_only(conn, node_ids) == conn.source_id \in node_ids

\* both ends of a connection are node ids
conn_ids_known(conn, node_ids) ==
    conn.source_id \in node_ids /\ conn.target_id \in node_ids

\* MFNGraph.__post_init__: "ok", or the exception the constructor raises
MFNGraph_post_init(nodes, connections, chaos_level) ==
    LET node_ids == { nodes[i].id : i \in 1 .. Len(nodes) }
    IN  IF ~(0 <= chaos_level /\ chaos_level <= 10) THEN "ValueError"
        ELSE IF Cardinality(node_ids) # Len(nodes) THEN "ValueError"
        ELSE IF \E i \in 1 .. Len(connections) :
                   ~conn_ids_known(connections[i], node_ids) THEN "ValueError"
        ELSE "ok"

\* max_delay_samples as computed by __post_init__
graph_max_delay(nodes, connections) ==
    LET ds == { nodes[i].delay_samples : i \in 1 .. Len(nodes) }
              \cup { connections[i].delay_samples : i \in 1 .. Len(connections) }
              \cup {0}
    IN  CHOOSE m \in ds : \A d \in ds : d <= m

\* the MFNGraph object a successful construction yields
MFNGraph(nodes, connections, input_gain, output_gain, chaos_level) ==
    [ kind |-> "MFNGraph", nodes |-> nodes, connections |-> connections,
      input_gain |-> input_gain, output_gain |-> output_gain,
      chaos_level |-> chaos_level,
      max_delay_samples |-> graph_max_delay(nodes, connections) ]

\* MFN.__init__
MFN_init ==
    [ nodes |-> <<>>, connections |-> <<>>, input_gain |-> 1,
      output_gain |-> 1, chaos_level |-> 0, node_id_set |-> {} ]

\* a new builder; no MFNGraph has been constructed yet
GraphFresh ==
    /\ builder = MFN_init
    /\ graph = NoGraph
    /\ ctor = [called |-> FALSE]
    /\ raised = "none"

\* MFNGraph(nodes=..., connections=..., chaos_level=...) called directly
\* (one construction is followed per behaviour)
ConstructGraph ==
    /\ ~ctor.called
    /\ \E nodes \in SeqsUpTo({ MFNNode(id, 0, 1) : id \in NodeIds }, MaxCtorNodes),
       connections \in SeqsUpTo({ MFNConnection(s, t, 1, 0) : s \in ConnIds, t \in ConnIds },
                                MaxCtorConns),
       chaos_level \in ChaosArgs :
       LET r == MFNGraph_post_init(nodes, connections, chaos_level)
       IN  /\ ctor' = [called |-> TRUE, nodes |-> nodes, connections |-> connections,
                       chaos_level |-> chaos_level, by |-> "MFNGraph",
                       raised |-> IF r = "ok" THEN "none" ELSE r]
           /\ raised' = IF r = "ok" THEN "none" ELSE r
           /\ graph' = IF r = "ok"
                          THEN MFNGraph(nodes, connections, 1, 1, chaos_level)
                          ELSE graph
           /\ UNCHANGED builder

\* an add_node that builds the node with the fields MFNNode has and appends
\* it to self._nodes
MFN_add_node_appends ==
    \E node_id \in NodeIds :
       IF node_id \in builder.node_id_set
          THEN /\ raised' = "ValueError"
               /\ UNCHANGED <<builder, graph, ctor>>
          ELSE /\ builder' = [builder EXCEPT
                                !.nodes = Append(builder.nodes, MFNNode(node_id, 0, 1)),
                                !.node_id_set = builder.node_id_set \cup {node_id}]
               /\ raised' = "none"
               /\ UNCHANGED <<graph, ctor>>

\* MFN.add_node: a known id is rejected; otherwise MFNNode is called with the
\* keywords delay_s and max_delay_s, which the dataclass does not have
MFN_add_node ==
    \E node_id \in NodeIds :
       /\ raised' = IF node_id \in builder.node_id_set THEN "ValueError" ELSE "TypeError"
       /\ UNCHANGED <<builder, graph, ctor>>

\* MFN.add_connection: both ids must already be nodes of the builder
MFN_add_connection ==
    \E source_node_id \in ConnIds, target_node_id \in ConnIds :
       IF source_node_id \notin builder.node_id_set
             \/ target_node_id \notin builder.node_id_set
          THEN /\ raised' = "ValueError"
               /\ UNCHANGED <<builder, graph, ctor>>
          ELSE \* MFNConnection has no source_node_id / delay_s keywords
               /\ raised' = "TypeError"
               /\ UNCHANGED <<builder, graph, ctor>>

\* MFN.set_chaos_level
MFN_set_chaos_level ==
    \E level \in ChaosArgs :
       IF ~(0 <= level /\ level <= 10)
          THEN /\ raised' = "ValueError"
               /\ UNCHANGED <<builder, graph, ctor>>
          ELSE /\ builder' = [builder EXCEPT !.chaos_level = level]
               /\ raised' = "none"
               /\ UNCHANGED <<graph, ctor>>

\* MFN.set_input_gain / MFN.set_output_gain
MFN_set_gains ==
    \E gi \in {1, 2}, go \in {1, 2} :
       /\ builder' = [builder EXCEPT !.input_gain = gi, !.output_gain = go]
       /\ raised' = "none"
       /\ UNCHANGED <<graph, ctor>>

\* MFN.build: re-checks the connections, then constructs the MFNGraph
MFN_build ==
    /\ ~ctor.called
    /\ IF builder.connections # <<>>
       THEN \* conn.source_node_id does not exist on MFNConnection
            /\ raised' = "AttributeError"
            /\ UNCHANGED <<builder, graph, ctor>>
       ELSE LET r == MFNGraph_post_init(builder.nodes, builder.connections,
                                        builder.chaos_level)
            IN  /\ ctor' = [called |-> TRUE, nodes |-> builder.nodes,
                            connections |-> builder.connections,
                            chaos_level |-> builder.chaos_level, by |-> "build",
                            raised |-> IF r = "ok" THEN "none" ELSE r]
                /\ raised' = IF r = "ok" THEN "none" ELSE r
                /\ graph' = IF r = "ok"
                               THEN MFNGraph(builder.nodes, builder.connections,
                                             builder.input_gain, builder.output_gain,
                                             builder.chaos_level)
                               ELSE graph
                /\ UNCHANGED builder

InitGraph == GateIdle /\ WavIdle /\ MfnIdle /\ FxIdle /\ GraphFresh

NextGraph ==
    /\ UNCHANGED <<gateVars, wavVars, mfnVars, fxVars>>
    /\ \/ ConstructGraph
       \/ MFN_add_node
       \/ MFN_add_connection
       \/ MFN_set_chaos_level
       \/ MFN_set_gains
       \/ MFN_build

SpecGraph == InitGraph /\ [][NextGraph]_vars

----------------------------------------------------------------------------
(* Multi-feedback network: graph construction properties                   *)

DuplicateIds(nodes) ==
    \E i, j \in 1 .. Len(nodes) : i # j /\ nodes[i].id = nodes[j].id

DanglingConnection(nodes, connections) ==
    \E c \in 1 .. Len(connections) :
       \/ \A i \in 1 .. Len(nodes) : nodes[i].id # connections[c].source_id
       \/ \A i \in 1 .. Len(nodes) : nodes[i].id # connections[c].target_id

Malformed(nodes, connections, chaos_level) ==
    \/ DuplicateIds(nodes)
    \/ DanglingConnection(nodes, connections)
    \/ chaos_level < 0
    \/ chaos_level > 10

\* C7: constructing an MFNGraph, directly or through MFN.build, with a
\* duplicate node id, a connection to or from an unknown id, or a chaos level
\* outside [0,1] raises at construction and yields no graph object, so every
\* graph that exists (and can be handed to the block engine) is well formed.
C7_MalformedGraphRejected ==
    /\ (ctor.called /\ Malformed(ctor.nodes, ctor.connections, ctor.chaos_level))
          => (ctor.raised = "ValueError" /\ graph = NoGraph)
    /\ (ctor.called /\ ctor.raised = "none") => graph # NoGraph
    /\ graph # NoGraph
          => ~Malformed(graph.nodes, graph.connections, graph.chaos_level)

\* a construction with a dangling target id was attempted and refused
C7_Witness ==
    /\ ctor.called
    /\ ctor.raised = "ValueError"
    /\ graph = NoGraph
    /\ ~DuplicateIds(ctor.nodes)
    /\ ctor.chaos_level = 5
    /\ Len(ctor.connections) = 1
    /\ ctor.connections[1].source_id = "a"
    /\ ctor.connections[1].target_id = "z"
    /\ Len(ctor.nodes) = 1
    /\ ctor.nodes[1].id = "a"

----------------------------------------------------------------------------
(* Multi-feedback network: block kernels and watchdog                      *)
(* Samples are integers in 1/MfnOne of full scale; node, connection, input *)
(* and output gains are whole numbers, so products are exact.  RMS values  *)
(* and watchdog coefficients are in thousandths.                           *)

\* block_size of the engine (the program's default is 256)
MfnBlockSize == 2

\* number of blocks one apply_feedback_network call is followed for
MaxBlocks == 3

\* full scale (1.0)
MfnOne == 3 * 4

\* length of every node's delay line: two blocks and one sample, so that
\* block writes and reads wrap around inside a block
MfnBufLen == 2 * MfnBlockSize + 1

MfnDelays == 0 .. (MfnBufLen - MfnBlockSize)

MfnGains == {1, 2}


\* watchdog_limit_threshold_rms (0.85)
WATCHDOG_LIMIT == 850

\* watchdog_release_coeff (0.005)
WATCHDOG_RELEASE == 5

\* 10 ** (watchdog_max_reduction_db / 20) for -18 dB
WATCHDOG_MAX_REDUCTION == 126

\* watchdog_attack_coeff: the default 0.05 and 1.0 (no smoothing)
WatchdogAttackSet == {50, 1000}

Sgn(x) == IF x < 0 THEN -1 ELSE IF x > 0 THEN 1 ELSE 0

\* x / d rounded toward zero (d > 0)
DivT(x, d) == Sgn(x) * (Abs(x) \div d)

RECURSIVE SumSeq(_)
SumSeq(q) == IF q = <<>> THEN 0 ELSE Head(q) + SumSeq(Tail(q))

\* floor of the square root of v, searched by bisection in lo .. hi
RECURSIVE IsqrtIn(_, _, _)
IsqrtIn(lo, hi, v) ==
    IF lo >= hi THEN lo
    ELSE LET mid == (lo + hi + 1) \div 2
         IN  IF mid * mid <= v THEN IsqrtIn(mid, hi, v) ELSE IsqrtIn(lo, mid - 1, v)

Isqrt(v) == IsqrtIn(0, 1000, v)

\* np.tanh on 1/MfnOne fixed point: odd, increasing, saturating at +-1.0
\* (Pade approximant x(27 + x^2) / (27 + 9 x^2), exact 1.0 from |x| >= 3)
np_tanh(t) ==
    IF Abs(t) >= 3 * MfnOne THEN Sgn(t) * MfnOne
    ELSE Sgn(t) * ((Abs(t) * (27 * MfnOne * MfnOne + t * t))
                      \div (27 * MfnOne * MfnOne + 9 * t * t))

\* a write that stores the part of the block that fits before the end of
\* the buffer and drops the rest
ring_buffer_write_first_part_only(buffer, write_pos, data_block) ==
    [ buffer |-> [ i \in 1 .. Len(buffer) |->
                     IF i - 1 >= write_pos /\ i - 1 < write_pos + Len(data_block)
                        THEN data_block[i - write_pos] ELSE buffer[i] ],
      pos |-> (write_pos + Len(data_block)) % Len(buffer) ]


\* _ring_buffer_write: the buffer after the write and the new write position
ring_buffer_write(buffer, write_pos, data_block) ==
    LET block_size == Len(data_block)
        buffer_len == Len(buffer)
        num_first_part == buffer_len - write_pos
        num_second_part == block_size - num_first_part
        nb == [ i \in 1 .. buffer_len |->
                  LET idx == i - 1
                  IN  IF write_pos + block_size <= buffer_len
                         THEN IF idx >= write_pos /\ idx < write_pos + block_size
                                 THEN data_block[idx - write_pos + 1]
                                 ELSE buffer[i]
                         ELSE IF idx >= write_pos
                                 THEN data_block[idx - write_pos + 1]
                                 ELSE IF idx < num_second_part
                                         THEN data_block[num_first_part + idx + 1]
                                         ELSE buffer[i] ]
    IN  [buffer |-> nb, pos |-> (write_pos + block_size) % buffer_len]

\* _ring_buffer_read: block_size samples starting delay_samples before write_pos
ring_buffer_read(buffer, write_pos, delay_samples, block_size) ==
    LET buffer_len == Len(buffer)
        read_head_start == (write_pos - delay_samples + buffer_len) % buffer_len
        num_first_part == buffer_len - read_head_start
    IN  [ j \in 1 .. block_size |->
            IF read_head_start + block_size <= buffer_len
               THEN buffer[read_head_start + j]
               ELSE IF j <= num_first_part
                       THEN buffer[read_head_start + j]
                       ELSE buffer[j - num_first_part] ]

\* the chaos/saturation stage applied to one sample (chaos_level in tenths)
chaos_saturate(x, chaos_level) ==
    IF chaos_level > 0
       THEN LET saturation_factor == 10 + chaos_level * 5
                temp_signal == np_tanh(DivT(x * saturation_factor, 10))
            IN  np_clip(DivT(temp_signal * 10, saturation_factor), -MfnOne, MfnOne)
       ELSE x

\* np.sqrt(np.mean(np.square(block))) in thousandths of full scale
block_rms(block) ==
    IF Len(block) > 0
       THEN Isqrt((SumSeq([j \in 1 .. Len(block) |-> block[j] * block[j]]) * 1000000)
                     \div (Len(block) * MfnOne * MfnOne))
       ELSE 0

NodeIndex(g, id) == CHOOSE i \in 1 .. Len(g.nodes) : g.nodes[i].id = id

GraphIds(g) == { g.nodes[i].id : i \in 1 .. Len(g.nodes) }

\* step 2 of the NumPy kernel: feedback gathered into one node's accumulator
np_feedback(g, delay_lines, write_pos, target_id, j, block_size) ==
    SumSeq([ c \in 1 .. Len(g.connections) |->
               LET conn == g.connections[c]
                   source_node_def == g.nodes[NodeIndex(g, conn.source_id)]
                   tap == ring_buffer_read(delay_lines[source_node_def.id],
                                           write_pos[source_node_def.id],
                                           source_node_def.delay_samples, block_size)
               IN  IF conn.target_id = target_id
                      THEN tap[j] * source_node_def.gain * conn.gain
                      ELSE 0 ])

\* a final output that is clipped to [-2, 2] instead of [-1, 1]
hard_clip_wide(x) == np_clip(x, -2 * MfnOne, 2 * MfnOne)

\* the hard clip of the final block output to [-1, 1]
hard_clip(x) == np_clip(x, -MfnOne, MfnOne)

\* what a kernel returns, with the delay lines and write positions it leaves
kernel_result(ids, final, written, buffers, positions) ==
    [ raised |-> "none",
      out |-> final,
      rms |-> block_rms(final),
      written |-> [ id \in ids |-> written[id] ],
      delay_lines |-> [ id \in ids |-> buffers[id] ],
      write_pos |-> [ id \in ids |-> positions[id] ] ]

\* steps 1 and 2 of the NumPy kernel and the chaos stage of step 3: the
\* block each node writes into its delay line
np_signals(current_input_block, g, delay_lines, write_pos, block_size) ==
    [ id \in GraphIds(g) |-> [ j \in 1 .. block_size |->
        chaos_saturate(current_input_block[j] * g.input_gain
                         + np_feedback(g, delay_lines, write_pos, id, j, block_size),
                       g.chaos_level) ] ]

\* steps 3 (tap after the write), 4 and 5 of the NumPy kernel; wr holds, for
\* every node, the delay line after the write and the new write position
np_mix(g, block_size, signal_to_write, wr) ==
    kernel_result(GraphIds(g),
        [ j \in 1 .. block_size |->
            hard_clip(SumSeq([ i \in 1 .. Len(g.nodes) |->
                         ring_buffer_read(wr[g.nodes[i].id].buffer, wr[g.nodes[i].id].pos,
                                          g.nodes[i].delay_samples, block_size)[j]
                           * g.nodes[i].gain ]) * g.output_gain) ],
        signal_to_write,
        [ id \in GraphIds(g) |-> wr[id].buffer ],
        [ id \in GraphIds(g) |-> wr[id].pos ])

\* step 3 of the NumPy kernel: every node's block is written at its write position
np_write(g, delay_lines, write_pos, block_size, signal_to_write) ==
    np_mix(g, block_size, signal_to_write,
           [ id \in GraphIds(g) |->
               ring_buffer_write(delay_lines[id], write_pos[id], signal_to_write[id]) ])

\* _process_block_numpy
process_block_numpy(current_input_block, g, delay_lines, write_pos, block_size) ==
    IF \E c \in 1 .. Len(g.connections) : g.connections[c].delay_samples # 0
       THEN [raised |-> "NotImplementedError"]
       ELSE np_write(g, delay_lines, write_pos, block_size,
                     np_signals(current_input_block, g, delay_lines, write_pos, block_size))

\* _ring_buffer_write_nb
ring_buffer_write_nb(buffer, write_pos, data_block) ==
    LET block_size == Len(data_block)
        buffer_len == Len(buffer)
        num_first_part == buffer_len - write_pos
        num_second_part == block_size - num_first_part
        nb == [ i \in 1 .. buffer_len |->
                  IF write_pos + block_size <= buffer_len
                     THEN IF write_pos < i /\ i <= write_pos + block_size
                             THEN data_block[i - write_pos]
                             ELSE buffer[i]
                     ELSE IF i > write_pos
                             THEN data_block[i - write_pos]
                             ELSE IF i <= num_second_part
                                     THEN data_block[num_first_part + i]
                                     ELSE buffer[i] ]
    IN  [buffer |-> nb, pos |-> (write_pos + block_size) % buffer_len]

\* _ring_buffer_read_nb
ring_buffer_read_nb(buffer, write_pos, delay_samples, block_size) ==
    LET buffer_len == Len(buffer)
        read_head_start == (write_pos - delay_samples + buffer_len) % buffer_len
    IN  [ j \in 1 .. block_size |->
            IF read_head_start + block_size <= buffer_len
               THEN buffer[read_head_start + j]
               ELSE IF read_head_start + j <= buffer_len
                       THEN buffer[read_head_start + j]
                       ELSE buffer[read_head_start + j - buffer_len] ]

\* the arrays apply_feedback_network prepares for the JIT kernel
numba_arrays(g, buffer_len) ==
    [ node_ids_list |-> [ i \in 1 .. Len(g.nodes) |-> g.nodes[i].id ],
      node_gains_arr |-> [ i \in 1 .. Len(g.nodes) |-> g.nodes[i].gain ],
      node_delays_arr |-> [ i \in 1 .. Len(g.nodes) |->
                              Max2(0, Min2(g.nodes[i].delay_samples, buffer_len - 1)) ],
      conn_source_indices |-> [ c \in 1 .. Len(g.connections) |->
                                  NodeIndex(g, g.connections[c].source_id) ],
      conn_target_indices |-> [ c \in 1 .. Len(g.connections) |->
                                  NodeIndex(g, g.connections[c].target_id) ],
      conn_gains_arr |-> [ c \in 1 .. Len(g.connections) |-> g.connections[c].gain ],
      conn_delay_samples_arr |-> [ c \in 1 .. Len(g.connections) |->
                                     g.connections[c].delay_samples ] ]

nb_source_gain_by_target(a, c) == a.node_gains_arr[a.conn_target_indices[c]]

\* source_node_gain = node_gains_arr[source_node_idx]
nb_source_gain(a, c) == a.node_gains_arr[a.conn_source_indices[c]]

\* the connection loop of the JIT kernel, for node index t and sample j
nb_feedback(a, delay_lines, write_pos, t, j, block_size) ==
    SumSeq([ c \in 1 .. Len(a.conn_source_indices) |->
               LET source_node_idx == a.conn_source_indices[c]
                   source_node_id == a.node_ids_list[source_node_idx]
                   tap == ring_buffer_read_nb(delay_lines[source_node_id],
                                              write_pos[source_node_id],
                                              a.node_delays_arr[source_node_idx],
                                              block_size)
               IN  IF a.conn_target_indices[c] = t
                      THEN tap[j] * nb_source_gain(a, c) * a.conn_gains_arr[c]
                      ELSE 0 ])

\* the accumulate and chaos stages of the JIT kernel, per node index
nb_signals(current_input_block, graph_input_gain, graph_chaos_level, a, delay_lines, write_pos, block_size) ==
    [ i \in 1 .. Len(a.node_ids_list) |-> [ j \in 1 .. block_size |->
        chaos_saturate(current_input_block[j] * graph_input_gain
                         + nb_feedback(a, delay_lines, write_pos, i, j, block_size),
                       graph_chaos_level) ] ]

NbIndex(a, id) == CHOOSE i \in 1 .. Len(a.node_ids_list) : a.node_ids_list[i] = id

NbIds(a) == { a.node_ids_list[i] : i \in 1 .. Len(a.node_ids_list) }

\* the tap after the write, the mix, the output gain and the clip of the JIT kernel
nb_mix(graph_output_gain, a, block_size, signal_to_write, wr) ==
    kernel_result(NbIds(a),
        [ j \in 1 .. block_size |->
            hard_clip(SumSeq([ i \in 1 .. Len(a.node_ids_list) |->
                         ring_buffer_read_nb(wr[i].buffer, wr[i].pos,
                                             a.node_delays_arr[i], block_size)[j]
                           * a.node_gains_arr[i] ]) * graph_output_gain) ],
        [ id \in NbIds(a) |-> signal_to_write[NbIndex(a, id)] ],
        [ id \in NbIds(a) |-> wr[NbIndex(a, id)].buffer ],
        [ id \in NbIds(a) |-> wr[NbIndex(a, id)].pos ])

\* the write of every node's block in the JIT kernel
nb_write(graph_output_gain, a, delay_lines, write_pos, block_size, signal_to_write) ==
    nb_mix(graph_output_gain, a, block_size, signal_to_write,
           [ i \in 1 .. Len(a.node_ids_list) |->
               ring_buffer_write_nb(delay_lines[a.node_ids_list[i]],
                                    write_pos[a.node_ids_list[i]], signal_to_write[i]) ])

\* _process_block_numba
process_block_numba(current_input_block, graph_input_gain, graph_output_gain, graph_chaos_level, a, delay_lines, write_pos, block_size) ==
    nb_write(graph_output_gain, a, delay_lines, write_pos, block_size,
             nb_signals(current_input_block, graph_input_gain, graph_chaos_level, a,
                        delay_lines, write_pos, block_size))

\* _rms_watchdog_update: the new average and the gain factor, in thousandths
rms_watchdog_update(current_rms, avg_rms, attack_coeff, release_coeff, limit_threshold_rms, max_reduction_linear) ==
    LET new_avg == IF current_rms > avg_rms
                      THEN (avg_rms * (1000 - attack_coeff) + current_rms * attack_coeff)
                              \div 1000
                      ELSE (avg_rms * (1000 - release_coeff) + current_rms * release_coeff)
                              \div 1000
        gain_factor == IF new_avg > limit_threshold_rms
                          THEN Max2(max_reduction_linear,
                                    Min2(1000, (limit_threshold_rms * 1000) \div new_avg))
                          ELSE 1000
    IN  [avg_rms |-> new_avg, gain_factor |-> Max2(0, Min2(1000, gain_factor))]

\* the graphs the block engine is run on: one node with no connection, with
\* a self-loop of gain 2, or with a self-loop that carries a connection
\* delay; one node with node, input and output gains of 2; and a two-node
\* cycle whose nodes have different gains
MfnGraphs ==
    { MFNGraph(<<MFNNode("a", d, 1)>>, conns, 1, 1, ch) :
        d \in MfnDelays, ch \in {0, 10},
        conns \in { <<>>, <<MFNConnection("a", "a", 2, 0)>>,
                    <<MFNConnection("a", "a", 1, 1)>> } }
    \cup
    { MFNGraph(<<MFNNode("a", d, 2)>>, <<>>, 2, 2, 0) : d \in MfnDelays }
    \cup
    { MFNGraph(<<MFNNode("a", MfnBlockSize, 1), MFNNode("b", d, 2)>>,
               <<MFNConnection("a", "b", cg, 0), MFNConnection("b", "a", 1, 0)>>,
               1, 1, ch) :
        d \in MfnBlockSize .. (MfnBufLen - MfnBlockSize), cg \in MfnGains, ch \in {0, 10} }

\* apply_feedback_network up to the block loop (the setup reads
\* node.max_delay_s and node.delay_s, which MFNNode no longer has; the loop
\* is modelled on delay lines of MfnBufLen samples): zeroed delay lines, write
\* positions 0, avg_rms 0; input is the part of audio_data consumed so far,
\* written and kernel_out what the kernel calls wrote and returned
MfnStart(g, use_numba, enable_rms_watchdog, watchdog_attack_coeff) ==
    [ pc |-> "running",
      graph |-> g,
      use_numba |-> use_numba,
      enable_rms_watchdog |-> enable_rms_watchdog,
      watchdog_attack_coeff |-> watchdog_attack_coeff,
      delay_lines |-> [ id \in GraphIds(g) |-> [ i \in 1 .. MfnBufLen |-> 0 ] ],
      write_pos |-> [ id \in GraphIds(g) |-> 0 ],
      avg_rms |-> 0,
      watchdog_gain |-> 1000,
      blocks |-> 0,
      input |-> <<>>,
      written |-> [ id \in GraphIds(g) |-> <<>> ],
      kernel_out |-> <<>>,
      output_audio |-> <<>>,
      np_result |-> [raised |-> "not run"],
      nb_result |-> [raised |-> "not run"] ]

InitMFN ==
    /\ GateIdle /\ WavIdle /\ GraphIdle /\ FxIdle
    /\ \E g \in MfnGraphs, use_numba \in BOOLEAN,
          wd \in {<<FALSE, 50>>} \cup { <<TRUE, a>> : a \in WatchdogAttackSet } :
          mfn = MfnStart(g, use_numba, wd[1], wd[2])

\* the blocks of audio_data that are fed: silence, an impulse on the first
\* or on the last sample, and full scale throughout
InputBlocks(n) ==
    { [ j \in 1 .. n |-> IF j \in S THEN MfnOne ELSE 0 ] : S \in { {}, {1}, {n}, 1 .. n } }

SubSeqOrEmpty(q, n) == [ j \in 1 .. n |-> q[j] ]

\* the watchdog stage of the block loop: the new avg_rms and gain and the
\* block that is copied into output_audio
watchdog_stage(m, r) ==
    IF m.enable_rms_watchdog
       THEN LET wd == rms_watchdog_update(r.rms, m.avg_rms, m.watchdog_attack_coeff,
                                          WATCHDOG_RELEASE, WATCHDOG_LIMIT,
                                          WATCHDOG_MAX_REDUCTION)
            IN  [ avg_rms |-> wd.avg_rms, gain_factor |-> wd.gain_factor,
                  processed_block |->
                      [ j \in 1 .. Len(r.out) |->
                          np_clip(DivT(r.out[j] * wd.gain_factor, 1000),
                                  -MfnOne, MfnOne) ] ]
       ELSE [ avg_rms |-> m.avg_rms, gain_factor |-> m.watchdog_gain,
              processed_block |-> r.out ]

\* one iteration of the block loop of apply_feedback_network: a block of
\* current_block_len input samples (a shorter last block is zero-padded), one
\* kernel call, the watchdog, and the copy into output_audio.  Both kernels
\* are evaluated on the same state; the engine continues with the selected one.
ProcessBlock ==
    /\ mfn.pc = "running"
    /\ mfn.blocks < MaxBlocks
    /\ UNCHANGED <<gateVars, wavVars, graphVars, fxVars>>
    /\ \E current_block_len \in 1 .. MfnBlockSize :
       \E data \in InputBlocks(current_block_len) :
       \E current_input_block \in
            { [ j \in 1 .. MfnBlockSize |-> IF j <= current_block_len THEN data[j] ELSE 0 ] } :
       \E rn \in { process_block_numpy(current_input_block, mfn.graph, mfn.delay_lines,
                                       mfn.write_pos, MfnBlockSize) } :
       \E rb \in { process_block_numba(current_input_block, mfn.graph.input_gain,
                                       mfn.graph.output_gain, mfn.graph.chaos_level,
                                       numba_arrays(mfn.graph, MfnBufLen),
                                       mfn.delay_lines, mfn.write_pos, MfnBlockSize) } :
       \E r \in { IF mfn.use_numba THEN rb ELSE rn } :
          IF r.raised # "none"
             THEN mfn' = [mfn EXCEPT !.pc = r.raised, !.np_result = rn, !.nb_result = rb]
             ELSE \E wd \in { watchdog_stage(mfn, r) } :
                  mfn' = [mfn EXCEPT
                           !.pc = IF current_block_len < MfnBlockSize
                                     THEN "returned" ELSE "running",
                           !.delay_lines = r.delay_lines,
                           !.write_pos = r.write_pos,
                           !.avg_rms = wd.avg_rms,
                           !.watchdog_gain = wd.gain_factor,
                           !.blocks = mfn.blocks + 1,
                           !.input = mfn.input \o data,
                           !.written = [ id \in GraphIds(mfn.graph) |->
                                           mfn.written[id] \o r.written[id] ],
                           !.kernel_out = mfn.kernel_out \o r.out,
                           !.output_audio = mfn.output_audio
                               \o SubSeqOrEmpty(wd.processed_block, current_block_len),
                           !.np_result = rn,
                           !.nb_result = rb ]

\* the input is exhausted after a whole number of blocks
MfnReturn ==
    /\ mfn.pc = "running"
    /\ mfn.blocks > 0
    /\ UNCHANGED <<gateVars, wavVars, graphVars, fxVars>>
    /\ mfn' = [mfn EXCEPT !.pc = "returned"]

NextMFN == ProcessBlock \/ MfnReturn

SpecMFN == InitMFN /\ [][NextMFN]_vars

\* ---------------------------------------------------------------------
\* Properties of the block kernels and of the block loop
\* ---------------------------------------------------------------------

KernelsRan == mfn.np_result.raised # "not run"

NoConnectionDelays ==
    \A c \in 1 .. Len(mfn.graph.connections) : mfn.graph.connections[c].delay_samples = 0

UnitImpulse(q) ==
    /\ Len(q) > 0
    /\ q[1] = MfnOne
    /\ \A n \in 2 .. Len(q) : q[n] = 0

\* one node of delay D with block_size <= D <= buffer length - block_size,
\* no connections, unit gains, chaos level 0
SingleDelayGraph ==
    /\ Len(mfn.graph.nodes) = 1
    /\ Len(mfn.graph.connections) = 0
    /\ mfn.graph.nodes[1].gain = 1
    /\ mfn.graph.input_gain = 1
    /\ mfn.graph.output_gain = 1
    /\ mfn.graph.chaos_level = 0
    /\ mfn.graph.nodes[1].delay_samples >= MfnBlockSize
    /\ mfn.graph.nodes[1].delay_samples <= MfnBufLen - MfnBlockSize

\* C9: for one node of delay D (block_size <= D <= buffer length -
\* block_size), no connections, unit gains and chaos 0, a unit impulse at
\* input sample 0 appears in the kernel's output at sample D and at no
\* other sample.
C9_ImpulseAtDelay ==
    (SingleDelayGraph /\ UnitImpulse(mfn.input)) =>
        \A n \in 1 .. Len(mfn.kernel_out) :
            mfn.kernel_out[n] =
                (IF n = mfn.graph.nodes[1].delay_samples + 1 THEN MfnOne ELSE 0)

\* the largest magnitude stored in any node's delay line
DelayLinePeak ==
    LET S == { Abs(mfn.delay_lines[id][i]) :
                 id \in GraphIds(mfn.graph), i \in 1 .. MfnBufLen }
    IN  CHOOSE y \in S : \A z \in S : y >= z

\* four times full scale: twice what a node receives from a full-scale input
\* and a full-scale feedback sample
CirculationBound == 4 * MfnOne

----------------------------------------------------------------------------
\* Mastering chain (dsp/master.py).  Samples are in hundredths of full scale.

\* longest buffer handed to an effect call
MaxFxLen == 2

MasterOne == 10 * 10

\* limiter(y, limit=0.98) in apply_mastering
LIMITER_CEILING == 98

\* gain_linear = 10 ** (drive_db / 20.0) for drive_db = 6.0, in hundredths
DRIVE_GAIN_LINEAR == 200

\* the samples librosa.load may deliver: full scale either way, silence, a
\* quiet sample, a moderate one and one above full scale
MasterSamples == {-MasterOne, 0, 1, 30, 2 * MasterOne}

\* np.max(np.abs(y)) of a non-empty buffer
PeakAbs(y) ==
    LET S == { Abs(y[i]) : i \in 1 .. Len(y) }
    IN  CHOOSE m \in S : \A z \in S : m >= z

\* np.tanh on fixed point with 1.0 = one (Pade approximant
\* x(27 + x^2) / (27 + 9 x^2), exactly 1.0 from |x| >= 3)
tanh_fp(t, one) ==
    IF Abs(t) >= 3 * one THEN Sgn(t) * one
    ELSE Sgn(t) * ((Abs(t) * (27 * one * one + t * t))
                      \div (27 * one * one + 9 * t * t))

\* normalize: np.max of an empty array raises ValueError; a zero peak
\* returns y unchanged; otherwise y / peak
normalize(y) ==
    IF Len(y) = 0 THEN [raised |-> "ValueError"]
    ELSE LET peak == PeakAbs(y)
         IN  IF peak = 0 THEN [raised |-> "none", y |-> y]
             ELSE [raised |-> "none",
                   y |-> [ i \in 1 .. Len(y) |-> DivT(y[i] * MasterOne, peak) ]]

\* apply_saturation: the rescaled value is overwritten, np.tanh(y_driven)
\* is what is returned
apply_saturation(y) ==
    [ i \in 1 .. Len(y) |-> tanh_fp(DivT(y[i] * DRIVE_GAIN_LINEAR, MasterOne), MasterOne) ]

\* what the band split, the four band compressors and the sum do to the
\* level of the buffer, in percent: the Butterworth bands do not add up to
\* the input exactly and every band gain is at most 1
MultibandGains == {50, 100, 150}

\* apply_multiband_compression; the filters and envelope followers are not
\* computed sample by sample, their joint effect is the gain k
apply_multiband_compression(y, k) ==
    [ i \in 1 .. Len(y) |-> DivT(y[i] * k, 100) ]

\* limiter: np.clip(y, -limit, limit)
limiter(y, limit) == [ i \in 1 .. Len(y) |-> np_clip(y[i], -limit, limit) ]

\* apply_mastering from the loaded buffer y to the buffer that is written
apply_mastering(y, k) ==
    LET n0 == normalize(y)
    IN  IF n0.raised # "none" THEN n0
        ELSE normalize(limiter(apply_multiband_compression(apply_saturation(n0.y), k),
                               LIMITER_CEILING))

MasterInputs == UNION { [1 .. n -> MasterSamples] : n \in 0 .. MaxFxLen }

InitMaster ==
    /\ GateIdle /\ WavIdle /\ GraphIdle /\ MfnIdle
    /\ \E y \in MasterInputs : fx = [call |-> "apply_mastering", pc |-> "called", y |-> y]

ApplyMastering ==
    /\ fx.call = "apply_mastering"
    /\ fx.pc = "called"
    /\ UNCHANGED <<gateVars, wavVars, graphVars, mfnVars>>
    /\ \E k \in MultibandGains :
       \E r \in { apply_mastering(fx.y, k) } :
          fx' = [ call |-> "apply_mastering", pc |-> "done", y |-> fx.y,
                  band_gain |-> k, result |-> r ]

NextMaster == ApplyMastering

SpecMaster == InitMaster /\ [][NextMaster]_vars

AllZero(y) == \A i \in 1 .. Len(y) : y[i] = 0

\* C12: for an input that is not all zero, the audio apply_mastering
\* produces has peak absolute value <= the limiter ceiling of the chain and
\* is not all zero.
C12_MasteredPeakWithinCeiling ==
    (fx.call = "apply_mastering" /\ fx.pc = "done" /\ ~AllZero(fx.y)) =>
        /\ fx.result.raised = "none"
        /\ PeakAbs(fx.result.y) <= LIMITER_CEILING
        /\ ~AllZero(fx.result.y)

----------------------------------------------------------------------------
\* apply_delay (dsp/effects/delay.py), mono.  Samples are in thousandths of
\* the input amplitude P; feedback and mix are in tenths.

\* largest delay_samples explored
MaxDelaySamples == 2

\* longest input fed to apply_delay
MaxDelayInput == 4

FxAmp == 10 * 10 * 10

FxSamples == {-FxAmp, 0, FxAmp}

\* feedback and mix arguments in tenths, inside and outside their ranges
FeedbackArgs == {-1, 0, 5, 9, 10}

MixArgs == {-1, 0, 5, 10, 11}

\* x * c for a coefficient c in tenths
MulTenths(x, c) == DivT(x * c, 10)

\* the range checks at the top of apply_delay
delay_check_args(feedback, mix) ==
    IF ~(0 <= feedback /\ feedback < 10) THEN "ValueError"
    ELSE IF ~(0 <= mix /\ mix <= 10) THEN "ValueError"
    ELSE "none"

\* a read of the newest slot of the delay buffer
delayed_sample_newest(delay_buffer) == delay_buffer[1]

\* delayed_sample = delay_buffer[-1]
delayed_sample(delay_buffer) == delay_buffer[Len(delay_buffer)]

\* a feedback path that ignores the feedback gain
new_buffer_input_unity(x, delayed, feedback) == x + delayed

\* new_buffer_input = audio_data[i] + delayed_sample * feedback
new_buffer_input(x, delayed, feedback) == x + MulTenths(delayed, feedback)

\* delay_buffer = np.roll(delay_buffer, 1); delay_buffer[0] = v
np_roll_insert(delay_buffer, v) ==
    <<v>> \o SubSeq(delay_buffer, 1, Len(delay_buffer) - 1)

\* output_sample = audio_data[i] * (1 - mix) + delayed_sample * mix
mix_sample(x, wet, mix) == MulTenths(x, 10 - mix) + MulTenths(wet, mix)

InitDelay ==
    /\ GateIdle /\ WavIdle /\ GraphIdle /\ MfnIdle
    /\ \E D \in 0 .. MaxDelaySamples, feedback \in FeedbackArgs, mix \in MixArgs :
          fx = [ call |-> "apply_delay", pc |-> "called", delay_samples |-> D,
                 feedback |-> feedback, mix |-> mix, delay_buffer |-> <<>>,
                 input |-> <<>>, output |-> <<>>, raised |-> "none" ]

\* apply_delay up to the sample loop: the range checks, then either the
\* bypass for delay_samples <= 0 or a zeroed delay buffer
DelayEnter ==
    /\ fx.call = "apply_delay"
    /\ fx.pc = "called"
    /\ UNCHANGED <<gateVars, wavVars, graphVars, mfnVars>>
    /\ LET err == delay_check_args(fx.feedback, fx.mix)
       IN  fx' = IF err # "none"
                    THEN [fx EXCEPT !.pc = "raised", !.raised = err]
                 ELSE IF fx.delay_samples <= 0
                    THEN [fx EXCEPT !.pc = "bypass"]
                 ELSE [fx EXCEPT !.pc = "loop",
                                 !.delay_buffer = [ i \in 1 .. fx.delay_samples |-> 0 ]]

\* one iteration of the mono sample loop
DelaySample ==
    /\ fx.call = "apply_delay"
    /\ fx.pc = "loop"
    /\ Len(fx.input) < MaxDelayInput
    /\ UNCHANGED <<gateVars, wavVars, graphVars, mfnVars>>
    /\ \E x \in FxSamples :
       \E delayed \in { delayed_sample(fx.delay_buffer) } :
          fx' = [fx EXCEPT
                   !.input = Append(fx.input, x),
                   !.output = Append(fx.output, mix_sample(x, delayed, fx.mix)),
                   !.delay_buffer =
                       np_roll_insert(fx.delay_buffer,
                                      new_buffer_input(x, delayed, fx.feedback)) ]

\* delay_samples <= 0: audio_data * (1 - mix) + processed_audio * mix, sample by sample
DelayBypassSample ==
    /\ fx.call = "apply_delay"
    /\ fx.pc = "bypass"
    /\ Len(fx.input) < MaxDelayInput
    /\ UNCHANGED <<gateVars, wavVars, graphVars, mfnVars>>
    /\ \E x \in FxSamples :
          fx' = [fx EXCEPT !.input = Append(fx.input, x),
                           !.output = Append(fx.output, mix_sample(x, x, fx.mix))]

\* the input is exhausted: processed_audio is returned
DelayReturn ==
    /\ fx.call = "apply_delay"
    /\ fx.pc \in {"loop", "bypass"}
    /\ UNCHANGED <<gateVars, wavVars, graphVars, mfnVars>>
    /\ fx' = [fx EXCEPT !.pc = "returned"]

NextDelay == DelayEnter \/ DelaySample \/ DelayBypassSample \/ DelayReturn

SpecDelay == InitDelay /\ [][NextDelay]_vars

InDelayLoop == fx.call = "apply_delay" /\ fx.pc \in {"loop", "returned"} /\ fx.delay_samples >= 1

\* C13: with feedback = 0 and mix = 1 and D = delay_samples >= 1, the mono
\* output is output[n] = input[n - D] for n >= D and 0 for n < D.
C13_PureDelay ==
    (InDelayLoop /\ fx.feedback = 0 /\ fx.mix = 10) =>
        /\ Len(fx.output) = Len(fx.input)
        /\ \A n \in 1 .. Len(fx.output) :
              fx.output[n] = (IF n > fx.delay_samples
                                 THEN fx.input[n - fx.delay_samples] ELSE 0)

\* a unit impulse at index 0 has come out, alone, at index D = MaxDelaySamples
C13_Witness ==
    /\ InDelayLoop /\ fx.feedback = 0 /\ fx.mix = 10
    /\ fx.delay_samples = MaxDelaySamples
    /\ Len(fx.output) > MaxDelaySamples
    /\ fx.input[1] = FxAmp
    /\ \A n \in 2 .. Len(fx.input) : fx.input[n] = 0
    /\ fx.output[MaxDelaySamples + 1] = FxAmp
    /\ \A n \in 1 .. Len(fx.output) : n # MaxDelaySamples + 1 => fx.output[n] = 0

\* C15: with feedback g in [0, 1), mix in [0, 1] and |input| <= P, every
\* value stored in the delay line and every output sample has absolute
\* value <= P / (1 - g).
C15_DelayBounded ==
    InDelayLoop =>
        /\ \A i \in 1 .. Len(fx.delay_buffer) :
              Abs(fx.delay_buffer[i]) * (10 - fx.feedback) <= 10 * FxAmp
        /\ \A n \in 1 .. Len(fx.output) :
              Abs(fx.output[n]) * (10 - fx.feedback) <= 10 * FxAmp

\* feedback 0.9 has built a stored value well above the input amplitude
C15_Witness ==
    /\ InDelayLoop /\ fx.feedback = 9
    /\ \E i \in 1 .. Len(fx.delay_buffer) : Abs(fx.delay_buffer[i]) > 2 * FxAmp
    /\ \E n \in 1 .. Len(fx.output) : Abs(fx.output[n]) > FxAmp

----------------------------------------------------------------------------
\* The modulated delay line of apply_vibrato, apply_flanger and apply_chorus
\* (mono).  The LFO value is not computed: for sample_rate 1000 and
\* depth_ms 1 (depth_samples = 1) the three functions allocate
\* max_delay_samples = 4 and sweep the delay over about 1.0 .. 2.1 samples,
\* and each iteration draws its current delay from ModDelays.

\* longest input fed to a modulated-delay effect
MaxModInput == 4

\* max_delay_samples = int(average_delay_samples + depth_samples + 2)
ModMaxDelaySamples == 2 + 2

\* current_delay as <<idx_int, idx_frac in tenths>>
ModDelays == { <<1, 0>>, <<1, 5>>, <<2, 0>> }

ModCalls == {"apply_vibrato", "apply_flanger", "apply_chorus"}

\* <<feedback, mix>> in tenths; vibrato has neither and is all wet
ModSettings(call) ==
    IF call = "apply_vibrato" THEN { <<0, 10>> } ELSE { <<0, 10>>, <<5, 5>> }

\* the two 0-based read indices into the rolled buffer (index 0 holds the
\* newest value): vibrato and flanger compute d_idx_1 and d_idx_2, chorus
\* takes d_idx[-1] and d_idx[-2] of a shifted index vector
mod_read_indices(call, idx_int, max_delay_samples) ==
    IF call = "apply_chorus"
       THEN << ((max_delay_samples - 1) - idx_int - 1 + max_delay_samples) % max_delay_samples,
               ((max_delay_samples - 2) - idx_int - 1 + max_delay_samples) % max_delay_samples >>
       ELSE << (max_delay_samples - 1 - idx_int + max_delay_samples) % max_delay_samples,
               (max_delay_samples - 1 - (idx_int + 1) + max_delay_samples) % max_delay_samples >>

\* interpolated_delayed_sample
mod_interpolate(delay_buffer, idx, idx_frac) ==
    MulTenths(delay_buffer[idx[1] + 1], 10 - idx_frac)
        + MulTenths(delay_buffer[idx[2] + 1], idx_frac)

InitMod ==
    /\ GateIdle /\ WavIdle /\ GraphIdle /\ MfnIdle
    /\ \E call \in ModCalls :
       \E st \in ModSettings(call) :
          fx = [ call |-> call, pc |-> "loop", feedback |-> st[1], mix |-> st[2],
                 delay_buffer |-> [ i \in 1 .. ModMaxDelaySamples |-> 0 ],
                 input |-> <<>>, written |-> <<>>, delays |-> <<>>, wet |-> <<>>,
                 output |-> <<>> ]

\* one iteration of the mono loop: read two slots, interpolate, mix, and
\* roll the new value in at index 0
ModSample ==
    /\ fx.call \in ModCalls
    /\ fx.pc = "loop"
    /\ Len(fx.input) < MaxModInput
    /\ UNCHANGED <<gateVars, wavVars, graphVars, mfnVars>>
    /\ \E x \in {0, FxAmp}, current_delay \in ModDelays :
       \E w \in { mod_interpolate(fx.delay_buffer,
                                  mod_read_indices(fx.call, current_delay[1],
                                                   ModMaxDelaySamples),
                                  current_delay[2]) } :
       \E v \in { IF fx.call = "apply_vibrato" THEN x
                  ELSE new_buffer_input(x, w, fx.feedback) } :
          fx' = [fx EXCEPT
                   !.input = Append(fx.input, x),
                   !.delays = Append(fx.delays, current_delay),
                   !.wet = Append(fx.wet, w),
                   !.output = Append(fx.output,
                                     IF fx.call = "apply_vibrato" THEN w
                                     ELSE mix_sample(x, w, fx.mix)),
                   !.written = Append(fx.written, v),
                   !.delay_buffer = np_roll_insert(fx.delay_buffer, v) ]

ModReturn ==
    /\ fx.call \in ModCalls
    /\ fx.pc = "loop"
    /\ UNCHANGED <<gateVars, wavVars, graphVars, mfnVars>>
    /\ fx' = [fx EXCEPT !.pc = "returned"]

NextMod == ModSample \/ ModReturn

SpecMod == InitMod /\ [][NextMod]_vars

\* the value written to the delay line k samples before sample n (0 before
\* the start of the buffer)
WrittenBefore(n, k) == IF n - k >= 1 THEN fx.written[n - k] ELSE 0

\* C14: the value read for a current delay d is the linear interpolation
\* between the values written floor(d) and floor(d) + 1 samples before the
\* current sample; for an integer d the wet sample at time n is the value
\* written at time n - d.
C14_ReadsDelayBehindCursor ==
    fx.call \in ModCalls =>
        \A n \in 1 .. Len(fx.wet) :
            fx.wet[n] = MulTenths(WrittenBefore(n, fx.delays[n][1]), 10 - fx.delays[n][2])
                          + MulTenths(WrittenBefore(n, fx.delays[n][1] + 1), fx.delays[n][2])

----------------------------------------------------------------------------
\* Argument checks of the feedback effects: apply_delay, apply_echo (which
\* calls apply_delay), apply_dub_echo, apply_chorus, apply_flanger and
\* apply_phaser.  other_ok stands for the remaining checked arguments
\* (damping_factor of apply_dub_echo; depth and stages of apply_phaser).

FeedbackCalls ==
    {"apply_delay", "apply_echo", "apply_dub_echo", "apply_chorus",
     "apply_flanger", "apply_phaser"}

FeedbackInRange(feedback) == 0 <= feedback /\ feedback < 10

MixInRange(mix) == 0 <= mix /\ mix <= 10

Raise(what) == [type |-> "ValueError", what |-> what]

NoError == [type |-> "none", what |-> "none"]

\* checks that leave the feedback argument unchecked
effect_check_args_mix_only(call, feedback, mix, other_ok) ==
    IF ~MixInRange(mix) THEN Raise("mix") ELSE NoError

\* the checks at the top of each function, in the order they are written
effect_check_args(call, feedback, mix, other_ok) ==
    CASE call \in {"apply_delay", "apply_echo"} ->
            IF ~FeedbackInRange(feedback) THEN Raise("feedback")
            ELSE IF ~MixInRange(mix) THEN Raise("mix")
            ELSE NoError
      [] call = "apply_dub_echo" ->
            IF ~other_ok THEN Raise("damping_factor")
            ELSE IF ~FeedbackInRange(feedback) THEN Raise("feedback")
            ELSE IF ~MixInRange(mix) THEN Raise("mix")
            ELSE NoError
      [] call \in {"apply_chorus", "apply_flanger"} ->
            IF ~MixInRange(mix) THEN Raise("mix")
            ELSE IF ~FeedbackInRange(feedback) THEN Raise("feedback")
            ELSE NoError
      [] call = "apply_phaser" ->
            IF ~MixInRange(mix) THEN Raise("mix")
            ELSE IF ~FeedbackInRange(feedback) THEN Raise("feedback")
            ELSE IF ~other_ok THEN Raise("depth or stages")
            ELSE NoError

InitArgs ==
    /\ GateIdle /\ WavIdle /\ GraphIdle /\ MfnIdle
    /\ \E call \in FeedbackCalls, feedback \in FeedbackArgs, mix \in MixArgs,
          other_ok \in BOOLEAN :
          fx = [ call |-> call, pc |-> "args", feedback |-> feedback, mix |-> mix,
                 other_ok |-> other_ok, raised |-> NoError,
                 used_feedback |-> 0, used_mix |-> 0, processed |-> 0,
                 returned |-> FALSE ]

\* the call up to its first processing statement: the checks either raise
\* or let the arguments through as given
FxCheckArgs ==
    /\ fx.call \in FeedbackCalls
    /\ fx.pc = "args"
    /\ UNCHANGED <<gateVars, wavVars, graphVars, mfnVars>>
    /\ \E err \in { effect_check_args(fx.call, fx.feedback, fx.mix, fx.other_ok) } :
          fx' = IF err.type # "none"
                   THEN [fx EXCEPT !.pc = "raised", !.raised = err]
                   ELSE [fx EXCEPT !.pc = "processing",
                                   !.used_feedback = fx.feedback, !.used_mix = fx.mix]

\* one sample goes through the effect with the feedback and mix in use
FxProcessSample ==
    /\ fx.call \in FeedbackCalls
    /\ fx.pc = "processing"
    /\ fx.processed < MaxFxLen
    /\ UNCHANGED <<gateVars, wavVars, graphVars, mfnVars>>
    /\ fx' = [fx EXCEPT !.processed = fx.processed + 1]

FxReturn ==
    /\ fx.call \in FeedbackCalls
    /\ fx.pc = "processing"
    /\ UNCHANGED <<gateVars, wavVars, graphVars, mfnVars>>
    /\ fx' = [fx EXCEPT !.pc = "returned", !.returned = TRUE]

NextArgs == FxCheckArgs \/ FxProcessSample \/ FxReturn

SpecArgs == InitArgs /\ [][NextArgs]_vars

\* C16: when feedback is outside [0, 1) or mix is outside [0, 1] the six
\* functions raise before any sample is processed, return no buffer, and do
\* not clamp the value into range.
C16_OutOfRangeArgsRaise ==
    (fx.call \in FeedbackCalls /\ fx.pc # "args"
       /\ (~FeedbackInRange(fx.feedback) \/ ~MixInRange(fx.mix))) =>
        /\ fx.pc = "raised"
        /\ fx.raised.type = "ValueError"
        /\ fx.processed = 0
        /\ ~fx.returned

\* feedback = 1.0 with every other argument in range has raised in
\* apply_echo, through apply_delay
C16_Witness ==
    /\ fx.call = "apply_echo"
    /\ fx.feedback = 10
    /\ MixInRange(fx.mix)
    /\ fx.pc = "raised"
    /\ fx.raised = Raise("feedback")

----------------------------------------------------------------------------
\* Compressor (dsp/effects/compressor.py), mono.  Levels are in thousandths
\* of full scale, decibels in tenths of a dB, the ratio in tenths, and the
\* envelope coefficients in thousandths.

\* longest input fed to apply_compressor
MaxCompInput == 3

CompSamples == {-FxAmp, 0, 100, 600, FxAmp}

CompThresholds == {-200, -60}

\* ratio 1.0 and the default 4.0
CompRatios == {10, 40}

\* hard knee and a 6 dB soft knee
CompKnees == {0, 60}

\* attack_coeff and release_coeff: 0.0 (attack_ms, release_ms <= 0) or 0.5
CompCoeffs == {0, 500}

\* makeup_gain_lin for 0 dB and for about +6 dB
CompMakeups == {FxAmp, 2 * FxAmp}

\* 20 * np.log10(level), rounded down to the grid of levels used here
lin_to_db(level) ==
    CASE level >= 1000 -> 0
      [] level >= 708  -> -30
      [] level >= 501  -> -60
      [] level >= 251  -> -120
      [] level >= 100  -> -200
      [] level >= 32   -> -300
      [] level >= 10   -> -400
      [] OTHER         -> -600

\* 10 ** (gain_reduction_db / 20.0) in thousandths: 1.0 exactly at 0 dB and
\* below 1.0 for every reduction
db_to_lin(db) ==
    CASE db >= 0    -> FxAmp
      [] db >= -10  -> 891
      [] db >= -30  -> 708
      [] db >= -60  -> 501
      [] db >= -120 -> 251
      [] db >= -200 -> 100
      [] OTHER      -> 32

\* (a - b) * (1.0 - 1.0 / r) for a ratio r given as num / den
gr_slope(diff, num, den) == DivT(diff * (num - den), num)

\* a gain computer that uses the default ratio 4.0 whatever self.ratio is
calculate_gain_reduction_default_ratio(level_db, threshold_db, ratio, knee_db) ==
    IF level_db <= threshold_db THEN 0 ELSE gr_slope(threshold_db - level_db, 40, 10)

\* Compressor._calculate_gain_reduction
calculate_gain_reduction(level_db, threshold_db, ratio, knee_db) ==
    IF knee_db <= 0 \/ 2 * level_db < 2 * threshold_db - knee_db
       THEN IF level_db <= threshold_db THEN 0
            ELSE gr_slope(threshold_db - level_db, ratio, 10)
    ELSE IF 2 * level_db <= 2 * threshold_db + knee_db
       THEN \* effective_ratio = 1 + knee_factor * (ratio - 1), as a fraction
            \* over 20 * knee_db
            LET over == 2 * level_db - (2 * threshold_db - knee_db)
                eff_num == 20 * knee_db + over * (ratio - 10)
                eff_den == 20 * knee_db
            IN  IF eff_num <= eff_den THEN 0
                ELSE DivT(gr_slope(2 * threshold_db - knee_db - 2 * level_db,
                                   eff_num, eff_den), 2)
    ELSE gr_slope(threshold_db - level_db, ratio, 10)

\* the envelope follower of process_sample
comp_envelope(c, input_level_lin) ==
    IF input_level_lin > c.envelope
       THEN (c.attack_coeff * c.envelope + (1000 - c.attack_coeff) * input_level_lin) \div 1000
       ELSE (c.release_coeff * c.envelope + (1000 - c.release_coeff) * input_level_lin) \div 1000

\* gain_reduction_db for an envelope level (0.0 below 1e-9)
comp_gain_reduction(c, envelope) ==
    IF envelope < 1 THEN 0
    ELSE calculate_gain_reduction(lin_to_db(envelope), c.threshold_db, c.ratio, c.knee_db)

\* Compressor.__init__
Compressor_init(threshold_db, ratio, attack_coeff, release_coeff, makeup_gain_lin, knee_db) ==
    [ threshold_db |-> threshold_db, ratio |-> ratio, attack_coeff |-> attack_coeff,
      release_coeff |-> release_coeff, makeup_gain_lin |-> makeup_gain_lin,
      knee_db |-> knee_db, envelope |-> 0 ]

InitComp ==
    /\ GateIdle /\ WavIdle /\ GraphIdle /\ MfnIdle
    /\ \E threshold_db \in CompThresholds, ratio \in CompRatios, knee_db \in CompKnees,
          coeff \in CompCoeffs, makeup \in CompMakeups, n \in 0 .. MaxCompInput :
          fx = [ call |-> "apply_compressor", pc |-> "called", n |-> n,
                 args |-> <<threshold_db, ratio, coeff, coeff, makeup, knee_db>>,
                 comp |-> [envelope |-> 0], input |-> <<>>, output |-> <<>>,
                 gain_reduction |-> <<>> ]

\* apply_compressor up to process_block: an empty input is returned as it
\* is, otherwise a new Compressor is built
CompEnter ==
    /\ fx.call = "apply_compressor"
    /\ fx.pc = "called"
    /\ UNCHANGED <<gateVars, wavVars, graphVars, mfnVars>>
    /\ fx' = IF fx.n = 0
                THEN [fx EXCEPT !.pc = "returned"]
                ELSE [fx EXCEPT !.pc = "loop",
                                !.comp = Compressor_init(fx.args[1], fx.args[2], fx.args[3],
                                                         fx.args[4], fx.args[5], fx.args[6])]

\* Compressor.process_sample on the next sample of the block
CompProcessSample ==
    /\ fx.call = "apply_compressor"
    /\ fx.pc = "loop"
    /\ Len(fx.input) < fx.n
    /\ UNCHANGED <<gateVars, wavVars, graphVars, mfnVars>>
    /\ \E sample \in CompSamples :
       \E envelope \in { comp_envelope(fx.comp, Abs(sample)) } :
       \E gr \in { comp_gain_reduction(fx.comp, envelope) } :
          fx' = [fx EXCEPT
                   !.comp.envelope = envelope,
                   !.input = Append(fx.input, sample),
                   !.gain_reduction = Append(fx.gain_reduction, gr),
                   !.output = Append(fx.output,
                       DivT(DivT(sample * db_to_lin(gr), 1000) * fx.comp.makeup_gain_lin,
                            1000)) ]

\* the block is done: processed_audio is returned
CompReturn ==
    /\ fx.call = "apply_compressor"
    /\ fx.pc = "loop"
    /\ Len(fx.input) = fx.n
    /\ UNCHANGED <<gateVars, wavVars, graphVars, mfnVars>>
    /\ fx' = [fx EXCEPT !.pc = "returned"]

NextComp == CompEnter \/ CompProcessSample \/ CompReturn

SpecComp == InitComp /\ [][NextComp]_vars

\* C17: with ratio = 1.0 the computed gain reduction is 0 dB for every
\* level, threshold and knee width, and with 0 dB makeup gain every output
\* sample equals the input sample.
C17_UnityRatioIsNoOp ==
    (fx.call = "apply_compressor" /\ fx.args[2] = 10) =>
        /\ \A i \in 1 .. Len(fx.gain_reduction) : fx.gain_reduction[i] = 0
        /\ \A L \in {-600, -400, -300, -200, -120, -60, -30, 0} :
              calculate_gain_reduction(L, fx.args[1], 10, fx.args[6]) = 0
        /\ fx.args[5] = FxAmp => fx.output = fx.input

\* ratio 1.0 with a soft knee: a level inside the knee and a level above
\* it have both been processed, and the samples came out unchanged
C17_Witness ==
    /\ fx.call = "apply_compressor" /\ fx.pc = "returned"
    /\ fx.args[2] = 10 /\ fx.args[6] = 60 /\ fx.args[1] = -60 /\ fx.args[5] = FxAmp
    /\ fx.args[3] = 0
    /\ fx.input = <<600, -FxAmp>>
    /\ fx.gain_reduction = <<0, 0>>
    /\ fx.output = fx.input

----------------------------------------------------------------------------
\* apply_noise_gate (dsp/effects/noise_gate.py), mono: one top-level call.
\* The gate parameters are drawn as for InitGate, already converted to
\* samples and linear gains by NoiseGate.__init__.

\* longest input fed to apply_noise_gate
MaxGateCallLen == 3

\* a process_sample that returns the gain it computed instead of the
\* gated sample
gate_output_gain_only(sample, gain) == gain

\* the value process_sample returns: sample * self._gain
gate_output(sample, gain) == sample * gain

InitGateCall ==
    /\ GateIdle /\ WavIdle /\ GraphIdle /\ MfnIdle
    /\ \E thr \in ThresholdSet, a \in GateSamplesRange, h \in GateSamplesRange,
          r \in GateSamplesRange, att \in AttenuationSet, n \in 0 .. MaxGateCallLen :
          fx = [ call |-> "apply_noise_gate", pc |-> "called", n |-> n,
                 args |-> <<thr, a, h, r, att>>,
                 gate |-> [state |-> "none"], input |-> <<>>, output |-> <<>> ]

\* apply_noise_gate up to process_block: an empty input is returned as it
\* is, otherwise a new NoiseGate is built
GateCallEnter ==
    /\ fx.call = "apply_noise_gate"
    /\ fx.pc = "called"
    /\ UNCHANGED <<gateVars, wavVars, graphVars, mfnVars>>
    /\ fx' = IF fx.n = 0
                THEN [fx EXCEPT !.pc = "returned"]
                ELSE [fx EXCEPT !.pc = "loop",
                                !.gate = NoiseGate_init(fx.args[1], fx.args[2], fx.args[3],
                                                        fx.args[4], fx.args[5])]

\* process_block, mono loop: processed_block[i] = process_sample(audio_block[i])
GateCallSample ==
    /\ fx.call = "apply_noise_gate"
    /\ fx.pc = "loop"
    /\ Len(fx.input) < fx.n
    /\ UNCHANGED <<gateVars, wavVars, graphVars, mfnVars>>
    /\ \E sample \in GateSampleSet :
       \E g2 \in { process_sample(fx.gate, sample) } :
          fx' = [fx EXCEPT !.gate = g2,
                           !.input = Append(fx.input, sample),
                           !.output = Append(fx.output, gate_output(sample, g2.gain))]

\* the block is done: the processed block is returned in the input's dtype
GateCallReturn ==
    /\ fx.call = "apply_noise_gate"
    /\ fx.pc = "loop"
    /\ Len(fx.input) = fx.n
    /\ UNCHANGED <<gateVars, wavVars, graphVars, mfnVars>>
    /\ fx' = [fx EXCEPT !.pc = "returned"]

NextGateCall == GateCallEnter \/ GateCallSample \/ GateCallReturn

SpecGateCall == InitGateCall /\ [][NextGateCall]_vars

\* C18: whatever the threshold, attack, hold, release and attenuation are,
\* a call of apply_noise_gate on an all-zero buffer returns an all-zero
\* buffer of the same length, and every zero sample met on the way comes
\* out as zero.
C18_ZeroInZeroOut ==
    fx.call = "apply_noise_gate" =>
        /\ \A i \in 1 .. Len(fx.output) : fx.input[i] = 0 => fx.output[i] = 0
        /\ (fx.pc = "returned" /\ AllZero(fx.input)) =>
              /\ Len(fx.input) = fx.n
              /\ Len(fx.output) = fx.n
              /\ AllZero(fx.output)

\* a full-length all-zero buffer went through a gate whose closed gain is
\* above unity and came back all zero
C18_Witness ==
    /\ fx.call = "apply_noise_gate" /\ fx.pc = "returned"
    /\ fx.n = MaxGateCallLen
    /\ fx.args[5] = 3 * GainUnit
    /\ fx.input = [i \in 1 .. MaxGateCallLen |-> 0]
    /\ fx.output = fx.input
    /\ fx.gate.state = "closed"

----------------------------------------------------------------------------
\* A session of top-level effect calls in one Python process: calls of
\* apply_noise_gate, apply_compressor and apply_particle in any order.  What
\* outlives a call is the state of numpy's global random generator, which
\* np.random.rand and np.random.uniform read and advance; the NoiseGate and
\* Compressor objects are locals of their calls.  log records every call
\* made so far: the function, its arguments and what it returned.

\* number of calls in a session
MaxCalls == 2

\* The global generator of numpy is a deterministic generator whose state
\* each draw advances; it is seeded from the operating system when numpy is
\* imported.  It is kept here as a full-period congruential generator on
\* RngModulus states; a draw returns state / RngModulus, a value in [0, 1).
RngModulus == 2 * 2 * 2

np_random_next(rng) == (5 * rng + 1) % RngModulus

\* np.hanning(M) in thousandths, M <= 5
np_hanning(M) ==
    CASE M = 1 -> <<1000>>
      [] M = 2 -> <<0, 0>>
      [] M = 3 -> <<0, 1000, 0>>
      [] M = 4 -> <<0, 750, 750, 0>>
      [] OTHER -> <<0, 500, 1000, 500, 0>>

\* source_channel_audio[start : min(end, num_samples)], zero-padded to
\* grain_size_samples (start counts from 0)
raw_grain(audio, start, grain_size_samples) ==
    [k \in 1 .. grain_size_samples |->
        IF start + k <= Len(audio) THEN audio[start + k] ELSE 0]

np_flip(q) == [k \in 1 .. Len(q) |-> q[Len(q) + 1 - k]]

\* no pitch change: processed_grain * np.hanning(len(processed_grain))
windowed_grain(q) ==
    [k \in 1 .. Len(q) |-> DivT(q[k] * np_hanning(Len(q))[k], 1000)]

\* target_wet_channel[start : start + write_len] += processed_grain[:write_len]
overlap_add(wet, start, grain) ==
    [n \in 1 .. Len(wet) |->
        wet[n] + (IF n > start /\ n - start <= Len(grain) THEN grain[n - start] ELSE 0)]

\* The grain generation loop of apply_particle for pitch_shift_semitones = 0
\* and pitch_randomization_pct = 0.  a = [grain_size_samples,
\* inter_onset_interval_samples, direction_reverse_prob (in 1/RngModulus),
\* mix (tenths)].  Each grain draws np.random.rand() for the reverse flag
\* and then np.random.uniform for the pitch offset.
RECURSIVE particle_grains(_, _, _, _, _)
particle_grains(audio, a, wet, trigger, rng) ==
    IF trigger >= Len(audio) THEN [wet |-> wet, rng |-> rng]
    ELSE LET reverse_this_grain == rng < a.direction_reverse_prob
             raw == raw_grain(audio, trigger, a.grain_size_samples)
             processed == windowed_grain(IF reverse_this_grain THEN np_flip(raw) ELSE raw)
         IN  particle_grains(audio, a, overlap_add(wet, trigger, processed),
                             trigger + a.inter_onset_interval_samples,
                             np_random_next(np_random_next(rng)))

\* apply_particle, mono: [out, rng] for the generator state rng at entry
apply_particle(audio, a, rng) ==
    IF Len(audio) = 0 THEN [out |-> audio, rng |-> rng]
    ELSE LET r == particle_grains(audio, a, [n \in 1 .. Len(audio) |-> 0], 0, rng)
         IN  [ out |-> [n \in 1 .. Len(audio) |->
                          np_clip(MulTenths(audio[n], 10 - a.mix) + MulTenths(r.wet[n], a.mix),
                                  -FxAmp, FxAmp)],
               rng |-> r.rng ]

\* NoiseGate.process_block, mono, from gate state g: the processed block
RECURSIVE gate_process_block(_, _)
gate_process_block(g, audio_block) ==
    IF audio_block = <<>> THEN <<>>
    ELSE LET g2 == process_sample(g, Head(audio_block))
         IN  <<gate_output(Head(audio_block), g2.gain)>>
                \o gate_process_block(g2, Tail(audio_block))

\* apply_noise_gate(audio_data, ...) with a = <<threshold_lin,
\* attack_samples, hold_samples, release_samples, attenuation_lin>>
apply_noise_gate(audio_data, a) ==
    IF Len(audio_data) = 0 THEN audio_data
    ELSE gate_process_block(NoiseGate_init(a[1], a[2], a[3], a[4], a[5]), audio_data)

\* Compressor.process_sample: the new envelope and the returned sample
Compressor_process_sample(c, sample) ==
    LET envelope == comp_envelope(c, Abs(sample))
        gr == comp_gain_reduction(c, envelope)
    IN  [ comp |-> [c EXCEPT !.envelope = envelope],
          out  |-> DivT(DivT(sample * db_to_lin(gr), 1000) * c.makeup_gain_lin, 1000) ]

\* Compressor.process_block, mono
RECURSIVE comp_process_block(_, _)
comp_process_block(c, audio_block) ==
    IF audio_block = <<>> THEN <<>>
    ELSE LET r == Compressor_process_sample(c, Head(audio_block))
         IN  <<r.out>> \o comp_process_block(r.comp, Tail(audio_block))

\* apply_compressor(audio_data, ...) with a = <<threshold_db, ratio,
\* attack_coeff, release_coeff, makeup_gain_lin, knee_db>>
apply_compressor(audio_data, a) ==
    IF Len(audio_data) = 0 THEN audio_data
    ELSE comp_process_block(Compressor_init(a[1], a[2], a[3], a[4], a[5], a[6]), audio_data)

\* arguments offered to the calls of a session
SessionGateArgs ==
    { <<thr, 1, 1, 1, GainUnit>> : thr \in ThresholdSet }

SessionGateInputs == { <<>>, <<0, 1000>>, <<1000, 1000>>, <<1000, 400>> }

SessionCompArgs ==
    { <<-200, 40, c, c, FxAmp, 0>> : c \in CompCoeffs }

SessionCompInputs == { <<>>, <<100, FxAmp>>, <<FxAmp, FxAmp>>, <<FxAmp, 100>> }

\* grain_size_samples 4; one grain per buffer or a grain every 2 samples;
\* direction_reverse_prob 0.0, 0.5 and 1.0; fully wet or half wet
SessionParticleArgs ==
    { [ grain_size_samples |-> 2 + 2, inter_onset_interval_samples |-> ioi,
        direction_reverse_prob |-> p, mix |-> mix ] :
      ioi \in {2, 5}, p \in {0, RngModulus \div 2, RngModulus}, mix \in {5, 10} }

SessionParticleInputs ==
    { <<>>, <<0, FxAmp, 0, 0>>, <<FxAmp, FxAmp, FxAmp, FxAmp>> }

InitSession ==
    /\ GateIdle /\ WavIdle /\ GraphIdle /\ MfnIdle
    /\ \E rng \in 0 .. RngModulus - 1 :
          fx = [ call |-> "session", np_random |-> rng, log |-> <<>> ]

Logged(fn, args, out) == [fn |-> fn, args |-> args, out |-> out]

CallNoiseGate ==
    /\ fx.call = "session"
    /\ Len(fx.log) < MaxCalls
    /\ UNCHANGED <<gateVars, wavVars, graphVars, mfnVars>>
    /\ \E a \in SessionGateArgs, audio_data \in SessionGateInputs :
          fx' = [fx EXCEPT !.log = Append(fx.log,
                    Logged("apply_noise_gate", <<audio_data, a>>,
                           apply_noise_gate(audio_data, a)))]

CallCompressor ==
    /\ fx.call = "session"
    /\ Len(fx.log) < MaxCalls
    /\ UNCHANGED <<gateVars, wavVars, graphVars, mfnVars>>
    /\ \E a \in SessionCompArgs, audio_data \in SessionCompInputs :
          fx' = [fx EXCEPT !.log = Append(fx.log,
                    Logged("apply_compressor", <<audio_data, a>>,
                           apply_compressor(audio_data, a)))]

CallParticle ==
    /\ fx.call = "session"
    /\ Len(fx.log) < MaxCalls
    /\ UNCHANGED <<gateVars, wavVars, graphVars, mfnVars>>
    /\ \E a \in SessionParticleArgs, audio_data \in SessionParticleInputs :
       \E r \in { apply_particle(audio_data, a, fx.np_random) } :
          fx' = [fx EXCEPT !.np_random = r.rng,
                           !.log = Append(fx.log,
                               Logged("apply_particle", <<audio_data, a>>, r.out))]

NextSession == CallNoiseGate \/ CallCompressor \/ CallParticle

SpecSession == InitSession /\ [][NextSession]_vars

\* C19: two calls of the same effect function with equal arguments return
\* equal outputs, whatever was called before them; stated for
\* apply_noise_gate, apply_compressor and apply_particle.
C19_EqualArgsEqualOutputs ==
    fx.call = "session" =>
        \A i, j \in 1 .. Len(fx.log) :
            (fx.log[i].fn = fx.log[j].fn /\ fx.log[i].args = fx.log[j].args)
                => fx.log[i].out = fx.log[j].out

\* the same, for the two functions that draw no random numbers
GateAndCompressorCallsArePure ==
    fx.call = "session" =>
        \A i, j \in 1 .. Len(fx.log) :
            (/\ fx.log[i].fn # "apply_particle"
             /\ fx.log[i].fn = fx.log[j].fn /\ fx.log[i].args = fx.log[j].args)
                => fx.log[i].out = fx.log[j].out

----------------------------------------------------------------------------
\* Empty and silent buffers: one call of normalize, apply_delay,
\* apply_short_reverb, apply_noise_gate, apply_compressor or apply_particle
\* on a buffer of 0 .. MaxFxLen samples.  A call ends with the buffer it
\* returned or with the exception it raised; zero_div says whether it
\* divided the buffer by a zero peak on the way.

Returned(out, zero_div) == [raised |-> "none", out |-> out, zero_div |-> zero_div]

Raised(what) == [raised |-> what, out |-> <<>>, zero_div |-> FALSE]

\* the mono loop of apply_delay from a delay buffer, feedback and mix in
\* tenths
RECURSIVE delay_loop(_, _, _, _)
delay_loop(audio_data, delay_buffer, feedback, mix) ==
    IF audio_data = <<>> THEN <<>>
    ELSE LET x == Head(audio_data)
             delayed == delayed_sample(delay_buffer)
         IN  <<mix_sample(x, delayed, mix)>>
                \o delay_loop(Tail(audio_data),
                              np_roll_insert(delay_buffer, new_buffer_input(x, delayed, feedback)),
                              feedback, mix)

\* apply_delay(audio_data, delay_time_s, feedback, mix), mono, for
\* delay_samples = int(delay_time_s * DEFAULT_SR)
apply_delay(audio_data, delay_samples, feedback, mix) ==
    IF delay_check_args(feedback, mix) # "none" THEN Raised("ValueError")
    ELSE IF delay_samples <= 0
       THEN Returned([i \in 1 .. Len(audio_data) |-> mix_sample(audio_data[i], audio_data[i], mix)],
                     FALSE)
    ELSE Returned(delay_loop(audio_data, [k \in 1 .. delay_samples |-> 0], feedback, mix), FALSE)

\* feedbacks = [0.25, 0.2, 0.15, 0.1] of apply_short_reverb, in hundredths
ReverbFeedbacks == <<25, 20, 15, 10>>

\* delay_times = decay_time_s * [0.05, 0.07, 0.09, 0.11], in hundredths
ReverbDelayFactors == <<5, 7, 9, 11>>

\* apply_delay(audio_data, dt, feedback=feedbacks[i], mix=1.0): the output
\* sample is the delayed sample; feedback in hundredths
RECURSIVE reverb_tap_loop(_, _, _)
reverb_tap_loop(audio_data, delay_buffer, feedback) ==
    IF audio_data = <<>> THEN <<>>
    ELSE LET delayed == delayed_sample(delay_buffer)
         IN  <<delayed>>
                \o reverb_tap_loop(Tail(audio_data),
                                   np_roll_insert(delay_buffer,
                                       Head(audio_data) + DivT(delayed * feedback, 100)),
                                   feedback)

\* one delayed component: delay_samples <= 0 returns the input as it is
reverb_tap(audio_data, delay_samples, feedback) ==
    IF delay_samples <= 0 THEN audio_data
    ELSE reverb_tap_loop(audio_data, [k \in 1 .. delay_samples |-> 0], feedback)

\* wet_signal of apply_short_reverb: the components are summed with weight
\* 1 / len(delay_times); decay is decay_time_s * DEFAULT_SR, and a tap with
\* dt > 0 is used
reverb_wet(audio_data, decay) ==
    [ n \in 1 .. Len(audio_data) |->
        SumSeq([ i \in 1 .. 4 |->
            IF decay > 0
               THEN DivT(reverb_tap(audio_data, (decay * ReverbDelayFactors[i]) \div 100,
                                    ReverbFeedbacks[i])[n], 4)
               ELSE 0 ]) ]

\* apply_short_reverb(audio_data, decay_time_s, mix): np.max of the empty
\* wet signal raises ValueError; a peak above 1.0 is divided out
apply_short_reverb(audio_data, decay, mix) ==
    IF ~(0 <= mix /\ mix <= 10) THEN Raised("ValueError")
    ELSE IF Len(audio_data) = 0 THEN Raised("ValueError")
    ELSE LET wet == reverb_wet(audio_data, decay)
             peak == PeakAbs(wet)
             wet2 == IF peak > FxAmp
                        THEN [n \in 1 .. Len(wet) |-> DivT(wet[n] * FxAmp, peak)]
                        ELSE wet
         IN  Returned([n \in 1 .. Len(audio_data) |->
                          MulTenths(audio_data[n], 10 - mix) + MulTenths(wet2[n], mix)],
                      peak > FxAmp /\ peak = 0)

\* mastering normalize as a call of its own
normalize_call(y) ==
    LET r == normalize(y)
    IN  IF r.raised # "none" THEN Raised(r.raised)
        ELSE Returned(r.y, FALSE)

EdgeCalls ==
    { "normalize", "apply_delay", "apply_short_reverb",
      "apply_noise_gate", "apply_compressor", "apply_particle" }

EdgeInputs == UNION { [1 .. n -> FxSamples] : n \in 0 .. MaxFxLen }

\* decay_time_s * DEFAULT_SR: no reverb, and tap delays of 1, 1, 1 and 2
\* samples
ReverbDecays == {0, 20}

InitEdge ==
    /\ GateIdle /\ WavIdle /\ GraphIdle /\ MfnIdle
    /\ \E call \in EdgeCalls, audio_data \in EdgeInputs :
          fx = [ call |-> "edge", fn |-> call, pc |-> "called", input |-> audio_data,
                 result |-> [raised |-> "pending"] ]

EdgeDone(r) == fx' = [fx EXCEPT !.pc = "done", !.result = r]

EdgeNormalize ==
    /\ fx.call = "edge" /\ fx.fn = "normalize" /\ fx.pc = "called"
    /\ UNCHANGED <<gateVars, wavVars, graphVars, mfnVars>>
    /\ EdgeDone(normalize_call(fx.input))

EdgeDelay ==
    /\ fx.call = "edge" /\ fx.fn = "apply_delay" /\ fx.pc = "called"
    /\ UNCHANGED <<gateVars, wavVars, graphVars, mfnVars>>
    /\ \E delay_samples \in 0 .. MaxDelaySamples, feedback \in {0, 5}, mix \in {0, 5, 10} :
          EdgeDone(apply_delay(fx.input, delay_samples, feedback, mix))

EdgeShortReverb ==
    /\ fx.call = "edge" /\ fx.fn = "apply_short_reverb" /\ fx.pc = "called"
    /\ UNCHANGED <<gateVars, wavVars, graphVars, mfnVars>>
    /\ \E decay \in ReverbDecays, mix \in {0, 5, 10} :
          EdgeDone(apply_short_reverb(fx.input, decay, mix))

EdgeNoiseGate ==
    /\ fx.call = "edge" /\ fx.fn = "apply_noise_gate" /\ fx.pc = "called"
    /\ UNCHANGED <<gateVars, wavVars, graphVars, mfnVars>>
    /\ \E a \in SessionGateArgs :
          EdgeDone(Returned(apply_noise_gate(fx.input, a), FALSE))

EdgeCompressor ==
    /\ fx.call = "edge" /\ fx.fn = "apply_compressor" /\ fx.pc = "called"
    /\ UNCHANGED <<gateVars, wavVars, graphVars, mfnVars>>
    /\ \E a \in SessionCompArgs :
          EdgeDone(Returned(apply_compressor(fx.input, a), FALSE))

EdgeParticle ==
    /\ fx.call = "edge" /\ fx.fn = "apply_particle" /\ fx.pc = "called"
    /\ UNCHANGED <<gateVars, wavVars, graphVars, mfnVars>>
    /\ \E a \in SessionParticleArgs, rng \in 0 .. RngModulus - 1 :
          EdgeDone(Returned(apply_particle(fx.input, a, rng).out, FALSE))

NextEdge ==
    \/ EdgeNormalize \/ EdgeDelay \/ EdgeShortReverb
    \/ EdgeNoiseGate \/ EdgeCompressor \/ EdgeParticle

SpecEdge == InitEdge /\ [][NextEdge]_vars

\* C20: a call on a zero-length buffer returns an empty buffer and raises
\* nothing, and a call on an all-zero buffer returns without having divided
\* by zero; stated for normalize and for the effect functions in EdgeCalls.
C20_EmptyAndSilentHandled ==
    (fx.call = "edge" /\ fx.pc = "done") =>
        /\ Len(fx.input) = 0 =>
              (fx.result.raised = "none" /\ fx.result.out = <<>>)
        /\ (Len(fx.input) > 0 /\ AllZero(fx.input)) =>
              (fx.result.raised = "none" /\ ~fx.result.zero_div)

\* the part about silent buffers alone: an all-zero buffer of one sample
\* or more comes back all zero, of the same length, with no division by zero
SilentBuffersHandled ==
    (fx.call = "edge" /\ fx.pc = "done" /\ Len(fx.input) > 0 /\ AllZero(fx.input)) =>
        /\ fx.result.raised = "none" /\ ~fx.result.zero_div
        /\ Len(fx.result.out) = Len(fx.input)
        /\ AllZero(fx.result.out)

\* the functions that do return an empty buffer for an empty one
EmptyHandledOutsideReverbAndNormalize ==
    (/\ fx.call = "edge" /\ fx.pc = "done" /\ Len(fx.input) = 0
     /\ fx.fn \notin {"normalize", "apply_short_reverb"}) =>
        (fx.result.raised = "none" /\ fx.result.out = <<>>)

----------------------------------------------------------------------------
\* The grain generation loop of apply_particle, one grain per step
\* (dsp/effects/particle.py).  Only what decides how the loop proceeds is
\* kept: the buffer length, the inter-onset interval, the trigger time, the
\* generator state the grain draws advance, and the number of grains made.

\* longest buffer handed to the grain loop
MaxParticleLen == 4

\* the grain counter stops counting here: MaxGrains means MaxGrains or more
MaxGrains == 6

\* density in grains per second; 0 stands for a density <= 1e-6
ParticleDensities == {0, DEFAULT_SR \div 4, DEFAULT_SR \div 2, DEFAULT_SR, DEFAULT_SR + 2000}

\* inter_onset_interval_samples: num_samples + 1 for density <= 1e-6,
\* else int(current_sample_rate / density)
inter_onset_interval(density, num_samples) ==
    IF density <= 0 THEN num_samples + 1 ELSE DEFAULT_SR \div density

InitParticleLoop ==
    /\ GateIdle /\ WavIdle /\ GraphIdle /\ MfnIdle
    /\ \E n \in 0 .. MaxParticleLen, density \in ParticleDensities, rng \in 0 .. RngModulus - 1 :
          fx = [ call |-> "apply_particle_loop", pc |-> "called", num_samples |-> n,
                 density |-> density, np_random |-> rng,
                 inter_onset_interval_samples |-> 0,
                 current_grain_trigger_time_samples |-> 0, grains |-> 0 ]

\* apply_particle up to the loop: an empty buffer is returned at once,
\* otherwise the interval is computed and the trigger time starts at 0
ParticleEnter ==
    /\ fx.call = "apply_particle_loop"
    /\ fx.pc = "called"
    /\ UNCHANGED <<gateVars, wavVars, graphVars, mfnVars>>
    /\ fx' = IF fx.num_samples = 0
                THEN [fx EXCEPT !.pc = "returned"]
                ELSE [fx EXCEPT !.pc = "loop",
                                !.inter_onset_interval_samples =
                                    inter_onset_interval(fx.density, fx.num_samples)]

\* one pass of the while loop: two draws, the grain is made and added, and
\* the trigger time moves on by the inter-onset interval
ParticleGrain ==
    /\ fx.call = "apply_particle_loop"
    /\ fx.pc = "loop"
    /\ fx.current_grain_trigger_time_samples < fx.num_samples
    /\ UNCHANGED <<gateVars, wavVars, graphVars, mfnVars>>
    /\ fx' = [fx EXCEPT
                !.np_random = np_random_next(np_random_next(fx.np_random)),
                !.grains = Min2(fx.grains + 1, MaxGrains),
                !.current_grain_trigger_time_samples =
                    fx.current_grain_trigger_time_samples + fx.inter_onset_interval_samples]

\* the loop condition is false: mix, clip and return
ParticleReturn ==
    /\ fx.call = "apply_particle_loop"
    /\ fx.pc = "loop"
    /\ fx.current_grain_trigger_time_samples >= fx.num_samples
    /\ UNCHANGED <<gateVars, wavVars, graphVars, mfnVars>>
    /\ fx' = [fx EXCEPT !.pc = "returned"]

NextParticleLoop == ParticleEnter \/ ParticleGrain \/ ParticleReturn

\* the call is single-threaded and keeps running: whenever a step of it
\* is possible, one is eventually taken
SpecParticleLoop ==
    InitParticleLoop /\ [][NextParticleLoop]_vars /\ WF_vars(NextParticleLoop)

\* C21: for every buffer and every density > 0 the call of apply_particle
\* ends: the grain loop is left after finitely many grains and the call
\* returns.
C21_ParticleCallEnds ==
    (fx.call = "apply_particle_loop" /\ fx.density > 0) ~> (fx.pc = "returned")

\* the step the claim rests on: every pass of the grain loop moves the
\* trigger time forward
TriggerTimeIncreases ==
    [][ (fx.call = "apply_particle_loop" /\ fx.pc = "loop" /\ fx'.pc = "loop")
          => fx'.current_grain_trigger_time_samples > fx.current_grain_trigger_time_samples ]_vars

\* the densities for which the call does end: those up to the sample rate
ParticleCallEndsUpToSampleRate ==
    (fx.call = "apply_particle_loop" /\ fx.density <= DEFAULT_SR) ~> (fx.pc = "returned")

----------------------------------------------------------------------------
\* The MFNGraph a builder returned, against later calls on the builder.
\* build() passes self._nodes and self._connections themselves to MFNGraph,
\* so a graph made by build() holds the builder's two list objects; its
\* gains and chaos level are floats of its own.

\* the list graph.nodes refers to
graph_nodes ==
    IF ctor.called /\ ctor.by = "build" THEN builder.nodes ELSE graph.nodes

\* the list graph.connections refers to
graph_connections ==
    IF ctor.called /\ ctor.by = "build" THEN builder.connections ELSE graph.connections

GraphContents ==
    <<graph_nodes, graph_connections, graph.input_gain, graph.output_gain,
      graph.chaos_level, graph.max_delay_samples>>

----------------------------------------------------------------------------
\* apply_feedback_network as one call, from its argument checks to its
\* return (feedback_network.py:545-745).  What is followed is whether the
\* call returns and how many samples it returns.

\* longest audio_data handed to the call
MaxMfnCallLen == 5

\* block_size arguments
MfnCallBlockSizes == {1, 2, 3}

\* attribute access on a dataclass instance: a name the instance does not
\* have raises AttributeError
has_attr(obj, name) == name \in DOMAIN obj

\* the graphs handed in: one without nodes, and the graphs of MfnGraphs
MfnCallGraphs == { MFNGraph(<<>>, <<>>, 1, 1, 0) } \cup MfnGraphs

\* the per-node setup loop: max(0.001, node.max_delay_s) and node.delay_s
\* are read from every node
mfn_setup(g) ==
    IF \E i \in 1 .. Len(g.nodes) :
          ~has_attr(g.nodes[i], "max_delay_s") \/ ~has_attr(g.nodes[i], "delay_s")
       THEN "AttributeError" ELSE "none"

\* the number of samples the block loop copies into output_audio: for
\* i in range(0, num_samples, block_size) it copies min(i + block_size,
\* num_samples) - i samples
RECURSIVE block_loop_copied(_, _, _)
block_loop_copied(i, num_samples, block_size) ==
    IF i >= num_samples THEN 0
    ELSE (Min2(i + block_size, num_samples) - i)
            + block_loop_copied(i + block_size, num_samples, block_size)

\* apply_feedback_network: the exception it raises, or the number of
\* samples of the buffer it returns
apply_feedback_network(num_samples, g, block_size) ==
    IF g.nodes = <<>> THEN [raised |-> "none", returned_samples |-> num_samples]
    ELSE IF mfn_setup(g) # "none" THEN [raised |-> mfn_setup(g), returned_samples |-> 0]
    ELSE [raised |-> "none",
          returned_samples |-> block_loop_copied(0, num_samples, block_size)]

InitMfnCall ==
    /\ GateIdle /\ WavIdle /\ GraphIdle /\ MfnIdle
    /\ \E n \in 0 .. MaxMfnCallLen, g \in MfnCallGraphs, block_size \in MfnCallBlockSizes :
          fx = [ call |-> "apply_feedback_network", pc |-> "called", num_samples |-> n,
                 graph |-> g, block_size |-> block_size,
                 result |-> [raised |-> "pending"] ]

ApplyFeedbackNetwork ==
    /\ fx.call = "apply_feedback_network"
    /\ fx.pc = "called"
    /\ UNCHANGED <<gateVars, wavVars, graphVars, mfnVars>>
    /\ fx' = [fx EXCEPT !.pc = "done",
                        !.result = apply_feedback_network(fx.num_samples, fx.graph,
                                                          fx.block_size)]

NextMfnCall == ApplyFeedbackNetwork

SpecMfnCall == InitMfnCall /\ [][NextMfnCall]_vars

\* C23: a call of apply_feedback_network returns exactly as many samples as
\* audio_data has, for every length, block size and graph.
C23_ReturnsInputLength ==
    (fx.call = "apply_feedback_network" /\ fx.pc = "done") =>
        /\ fx.result.raised = "none"
        /\ fx.result.returned_samples = fx.num_samples

\* the block loop on its own keeps the length: what has been copied into
\* output_audio is as long as what has been consumed of audio_data
BlockLoopKeepsLength ==
    mfn.pc \in {"running", "returned"} => Len(mfn.output_audio) = Len(mfn.input)

\* the only calls that return are those on a graph without nodes
OnlyEmptyGraphReturns ==
    (fx.call = "apply_feedback_network" /\ fx.pc = "done") =>
        (fx.result.raised = "none" <=> fx.graph.nodes = <<>>)

----------------------------------------------------------------------------
\* execute_python_dsp_code (tools.py:63-244), one call.  The code runner
\* (utils.exec_env.run_code, imported as existing_run_code) is outside this
\* module: a call of it either returns a path or raises, and what it does
\* is a choice among the outcomes in RunnerOutcomes.

\* recipe_json arguments: not JSON, JSON that is not an object, an object
\* without description or duration, a duration float() rejects, and a
\* complete recipe
Recipes ==
    {"invalid_json", "not_dict", "missing_description", "missing_duration",
     "bad_duration", "ok"}

\* output_filename arguments: a .wav name, a name without suffix, nothing
OutputFilenames == {"a.wav", "a", ""}

ExceptionMessages == {"m1", "m2"}

\* exceptions that derive from Exception, and one that does not
ExceptionClasses == {"CodeExecutionError", "FileNotFoundError", "Exception"}

BaseExceptionClasses == {"KeyboardInterrupt"}

\* what a call of the runner can do
RunnerOutcomes ==
    { [kind |-> "returns", path |-> p] : p \in {"desired", "elsewhere", "nonexistent"} }
    \cup { [kind |-> "raises", class |-> c, message |-> m] :
             c \in ExceptionClasses \cup BaseExceptionClasses, m \in ExceptionMessages }

ErrorString(prefix, message) == [kind |-> "error", prefix |-> prefix, message |-> message]

PathString(path) == [kind |-> "path", path |-> path]

\* step 2: Path(output_filename).name, the default for an empty name, and
\* the .wav suffix
final_base_filename(output_filename) ==
    LET base_name_candidate ==
            IF output_filename = "" THEN "default_dsp_output.wav" ELSE output_filename
    IN  IF base_name_candidate \in {"a.wav", "default_dsp_output.wav"}
           THEN base_name_candidate ELSE "a.wav"

\* handlers that return a fixed text for everything but CodeExecutionError
handle_exception_drops_message(class, message) ==
    CASE class = "CodeExecutionError" ->
            [raised |-> "none",
             result |-> ErrorString("CodeExecutionError from existing_run_code", message)]
      [] class \in BaseExceptionClasses -> [raised |-> class, result |-> [kind |-> "none"]]
      [] OTHER ->
            [raised |-> "none",
             result |-> ErrorString("Unexpected error in execute_python_dsp_code", "")]

\* the except clauses of execute_python_dsp_code: every Exception becomes
\* an error string ending in str(e); an exception that is not an Exception
\* is not caught
handle_exception(class, message) ==
    CASE class = "JSONDecodeError" ->
            [raised |-> "none", result |-> ErrorString("JSONDecodeError for recipe_json", message)]
      [] class = "CodeExecutionError" ->
            [raised |-> "none",
             result |-> ErrorString("CodeExecutionError from existing_run_code", message)]
      [] class = "FileNotFoundError" ->
            [raised |-> "none", result |-> ErrorString("FileNotFoundError encountered", message)]
      [] class \in BaseExceptionClasses -> [raised |-> class, result |-> [kind |-> "none"]]
      [] OTHER ->
            [raised |-> "none",
             result |-> ErrorString("Unexpected error in execute_python_dsp_code", message)]

\* the string returned when the output directory cannot be made
MkdirFailed ==
    ErrorString("CRITICAL ERROR: Cannot create/access output directory", "m1")

InitExec ==
    /\ GateIdle /\ WavIdle /\ GraphIdle /\ MfnIdle
    /\ \E recipe \in Recipes, output_filename \in OutputFilenames, stale \in BOOLEAN :
          fx = [ call |-> "execute_python_dsp_code", pc |-> "called",
                 recipe |-> recipe, output_filename |-> output_filename,
                 desired_exists |-> stale, elsewhere_exists |-> FALSE,
                 runner_calls |-> 0, runner |-> [kind |-> "not called"],
                 raised |-> "none", result |-> [kind |-> "none"] ]

ExecDone(h) == [fx EXCEPT !.pc = "done", !.raised = h.raised, !.result = h.result]

ExecReturn(r) == [fx EXCEPT !.pc = "done", !.result = r]

\* json.loads and the checks of the decoded recipe
ExecParseRecipe ==
    /\ fx.call = "execute_python_dsp_code"
    /\ fx.pc = "called"
    /\ UNCHANGED <<gateVars, wavVars, graphVars, mfnVars>>
    /\ fx' = CASE fx.recipe = "invalid_json" ->
                    ExecDone(handle_exception("JSONDecodeError", "m1"))
               [] fx.recipe = "not_dict" ->
                    ExecReturn(ErrorString("Error: recipe_json did not decode to a dictionary", ""))
               [] fx.recipe \in {"missing_description", "missing_duration"} ->
                    ExecReturn(ErrorString("Error: missing from recipe_json", ""))
               [] OTHER -> [fx EXCEPT !.pc = "mkdir"]

\* step 1: EXEC_ENV_OUTPUT_DIR.mkdir, which may fail
ExecMkdir ==
    /\ fx.call = "execute_python_dsp_code"
    /\ fx.pc = "mkdir"
    /\ UNCHANGED <<gateVars, wavVars, graphVars, mfnVars>>
    /\ \E ok \in BOOLEAN :
          fx' = IF ok THEN [fx EXCEPT !.pc = "run"] ELSE ExecReturn(MkdirFailed)

\* steps 2 to 4: the file name is made safe and existing_run_code is
\* called; float(duration) is evaluated before the call and may raise
ExecRunCode ==
    /\ fx.call = "execute_python_dsp_code"
    /\ fx.pc = "run"
    /\ UNCHANGED <<gateVars, wavVars, graphVars, mfnVars>>
    /\ IF fx.recipe = "bad_duration"
          THEN fx' = ExecDone(handle_exception("ValueError", "m1"))
          ELSE \E o \in RunnerOutcomes :
                  IF o.kind = "raises"
                     THEN fx' = [ExecDone(handle_exception(o.class, o.message)) EXCEPT
                                    !.runner_calls = fx.runner_calls + 1, !.runner = o]
                     ELSE fx' = [fx EXCEPT
                                    !.pc = "place",
                                    !.runner_calls = fx.runner_calls + 1,
                                    !.runner = o,
                                    !.desired_exists = fx.desired_exists \/ o.path = "desired",
                                    !.elsewhere_exists = (o.path = "elsewhere")]

\* steps 5 and 6: where the file is, the move into the output directory
\* (shutil.copy2 may fail), and the final check
ExecPlace ==
    /\ fx.call = "execute_python_dsp_code"
    /\ fx.pc = "place"
    /\ UNCHANGED <<gateVars, wavVars, graphVars, mfnVars>>
    /\ LET final == final_base_filename(fx.output_filename)
       IN  CASE fx.runner.path = "nonexistent" ->
                   fx' = IF fx.desired_exists
                            THEN ExecReturn(PathString(final))
                            ELSE ExecReturn(ErrorString("Error: existing_run_code path does not exist", ""))
             [] fx.runner.path = "desired" ->
                   fx' = ExecReturn(PathString(final))
             [] OTHER ->
                   \E copied \in BOOLEAN :
                      fx' = IF copied
                               THEN [ExecReturn(PathString(final)) EXCEPT
                                        !.desired_exists = TRUE, !.elsewhere_exists = FALSE]
                               ELSE [ExecReturn(ErrorString("Error moving file", "m1")) EXCEPT
                                        !.desired_exists = FALSE]

NextExec == ExecParseRecipe \/ ExecMkdir \/ ExecRunCode \/ ExecPlace

SpecExec == InitExec /\ [][NextExec]_vars

ExecCallDone == fx.call = "execute_python_dsp_code" /\ fx.pc = "done"

RunnerRaised(classes) == fx.runner.kind = "raises" /\ fx.runner.class \in classes

----------------------------------------------------------------------------
\* _ring_buffer_write followed by _ring_buffer_read on one buffer
\* (feedback_network.py:131-206).  The buffer starts with a different
\* negative value in every cell and the block holds 1, 2, ..., so that
\* every value read tells which cell or which block sample it came from.

\* longest ring buffer
MaxRingLen == 5

InitRing ==
    /\ GateIdle /\ WavIdle /\ GraphIdle /\ MfnIdle
    /\ \E buffer_len \in 1 .. MaxRingLen :
       \E write_pos \in 0 .. buffer_len - 1, block_size \in 1 .. buffer_len :
          fx = [ call |-> "ring_buffer", pc |-> "start",
                 buffer |-> [i \in 1 .. buffer_len |-> -i],
                 write_pos |-> write_pos,
                 data_block |-> [j \in 1 .. block_size |-> j],
                 before |-> <<>>, new_pos |-> 0, delay_samples |-> 0,
                 output_block |-> <<>> ]

\* new_pos = _ring_buffer_write(buffer, write_pos, data_block); the buffer
\* is changed in place
RingWrite ==
    /\ fx.call = "ring_buffer"
    /\ fx.pc = "start"
    /\ UNCHANGED <<gateVars, wavVars, graphVars, mfnVars>>
    /\ \E w \in { ring_buffer_write(fx.buffer, fx.write_pos, fx.data_block) } :
          fx' = [fx EXCEPT !.pc = "written", !.before = fx.buffer,
                           !.buffer = w.buffer, !.new_pos = w.pos]

\* _ring_buffer_read(buffer, new_pos, delay_samples, block_size) right
\* after the write, with no delay or with a delay of one block
RingRead ==
    /\ fx.call = "ring_buffer"
    /\ fx.pc = "written"
    /\ UNCHANGED <<gateVars, wavVars, graphVars, mfnVars>>
    /\ \E delay_samples \in {0, Len(fx.data_block)} :
          fx' = [fx EXCEPT !.pc = "read", !.delay_samples = delay_samples,
                           !.output_block = ring_buffer_read(fx.buffer, fx.new_pos,
                                                delay_samples, Len(fx.data_block))]

NextRing == RingWrite \/ RingRead

SpecRing == InitRing /\ [][NextRing]_vars

\* C25: a read with delay_samples = 0 at the write position the preceding
\* write returned gives back the block_size samples that were just written.
C25_ZeroDelayReadsNewest ==
    (fx.call = "ring_buffer" /\ fx.pc = "read" /\ fx.delay_samples = 0) =>
        fx.output_block = fx.data_block

\* what the zero-delay read does return: the cells from the new write
\* position on, which hold the oldest values of the buffer, and a read
\* delayed by one block is the one that returns the block just written
ZeroDelayReadsFromCursor ==
    (fx.call = "ring_buffer" /\ fx.pc = "read") =>
        IF fx.delay_samples = 0
           THEN \A j \in 1 .. Len(fx.output_block) :
                   fx.output_block[j]
                      = fx.buffer[((fx.new_pos + j - 1) % Len(fx.buffer)) + 1]
           ELSE fx.output_block = fx.data_block

\* C26: for a block no longer than the buffer, the write stores block[j]
\* at index (write_pos + j) mod buffer_len for every j, leaves every other
\* cell as it was, and returns (write_pos + block_size) mod buffer_len.
C26_WriteStoresBlockAtCursor ==
    (fx.call = "ring_buffer" /\ fx.pc \in {"written", "read"}) =>
        LET buffer_len == Len(fx.buffer)
            block_size == Len(fx.data_block)
            written == { ((fx.write_pos + j) % buffer_len) + 1 : j \in 0 .. block_size - 1 }
        IN  /\ \A j \in 0 .. block_size - 1 :
                  fx.buffer[((fx.write_pos + j) % buffer_len) + 1] = fx.data_block[j + 1]
            /\ \A i \in (1 .. buffer_len) \ written : fx.buffer[i] = fx.before[i]
            /\ fx.new_pos = (fx.write_pos + block_size) % buffer_len

\* a block of two was written at the last cell of a buffer of four: it
\* wrapped, and the two cells in between kept their values
C26_Witness ==
    /\ fx.call = "ring_buffer" /\ fx.pc = "written"
    /\ fx.before = <<-1, -2, -3, -4>>
    /\ fx.data_block = <<1, 2>>
    /\ fx.write_pos = 3
    /\ fx.buffer = <<2, -2, -3, 1>>
    /\ fx.new_pos = 1

----------------------------------------------------------------------------
\* CompilerAgent.run (agents/compiler.py:91-271), one call.  The LLM call,
\* the code runner and the validator are outside this module; each call of
\* them either returns or raises.  The settings module is part of the
\* state the call starts in: as shipped it defines no
\* MAX_COMPILER_ITERATIONS (settings.py), and a caller may have set the
\* attribute on the module before the call.

\* largest settings.MAX_COMPILER_ITERATIONS a caller sets
MaxIterations == 3

\* phonosyne.settings as shipped, as far as run reads it: the name
\* MAX_COMPILER_ITERATIONS is not among its attributes
ShippedSettings == [DEFAULT_SR |-> DEFAULT_SR]

CompilerSettings ==
    {ShippedSettings}
    \cup { [DEFAULT_SR |-> DEFAULT_SR, MAX_COMPILER_ITERATIONS |-> k] : k \in 1 .. MaxIterations }

\* what one LLM call gives: a fenced code block, text without one, or an
\* API error that _llm_call re-raises
LlmOutcomes == {"code", "no_code", "APIError"}

\* what run_code does: returns the path of the WAV, or raises
RunCodeOutcomes == {"path", "FileNotFoundError", "SecurityException", "Exception"}

InitCompiler ==
    /\ GateIdle /\ WavIdle /\ GraphIdle /\ MfnIdle
    /\ \E settings \in CompilerSettings, prompt_template \in BOOLEAN, validator_fn \in BOOLEAN :
          fx = [ call |-> "CompilerAgent.run", pc |-> "called", settings |-> settings,
                 prompt_template |-> prompt_template, validator_fn |-> validator_fn,
                 attempt |-> 0, llm_calls |-> 0, executed |-> FALSE,
                 validator_called |-> FALSE, current_error_feedback |-> "none",
                 result |-> [kind |-> "none"] ]

CompilerRaise(what) == [fx EXCEPT !.pc = "done", !.result = [kind |-> "raised", class |-> what]]

\* the end of a failed attempt: the next one starts, or the loop is over
\* and ValueError("Max iterations reached ...") is raised
attempt_failed(feedback) ==
    IF fx.attempt >= fx.settings.MAX_COMPILER_ITERATIONS
       THEN [CompilerRaise("ValueError") EXCEPT !.current_error_feedback = feedback]
       ELSE [fx EXCEPT !.pc = "attempt", !.attempt = fx.attempt + 1, !.executed = FALSE,
                       !.validator_called = FALSE, !.current_error_feedback = feedback]

\* run up to the loop header: the prompt template check, then
\* range(1, settings.MAX_COMPILER_ITERATIONS + 1)
CompilerStart ==
    /\ fx.call = "CompilerAgent.run"
    /\ fx.pc = "called"
    /\ UNCHANGED <<gateVars, wavVars, graphVars, mfnVars>>
    /\ fx' = IF ~fx.prompt_template THEN CompilerRaise("ValueError")
             ELSE IF ~has_attr(fx.settings, "MAX_COMPILER_ITERATIONS")
                     THEN CompilerRaise("AttributeError")
             ELSE [fx EXCEPT !.pc = "attempt", !.attempt = 1]

\* the LLM call of an attempt and the extraction of the code block
CompilerGenerate ==
    /\ fx.call = "CompilerAgent.run"
    /\ fx.pc = "attempt"
    /\ UNCHANGED <<gateVars, wavVars, graphVars, mfnVars>>
    /\ \E o \in LlmOutcomes :
          fx' = CASE o = "APIError" ->
                       [CompilerRaise("APIError") EXCEPT !.llm_calls = fx.llm_calls + 1]
                  [] o = "no_code" ->
                       [attempt_failed("no code block") EXCEPT !.llm_calls = fx.llm_calls + 1]
                  [] OTHER ->
                       [fx EXCEPT !.pc = "execute", !.llm_calls = fx.llm_calls + 1]

\* run_code on the generated code
CompilerExecute ==
    /\ fx.call = "CompilerAgent.run"
    /\ fx.pc = "execute"
    /\ UNCHANGED <<gateVars, wavVars, graphVars, mfnVars>>
    /\ \E o \in RunCodeOutcomes :
          fx' = IF o = "path"
                   THEN [fx EXCEPT !.pc = "validate", !.executed = TRUE]
                   ELSE attempt_failed(o)

\* the validation step: without a validator_fn the WAV is taken as valid;
\* with one, the attempt is valid when the call returns and invalid when
\* it raises
CompilerValidate ==
    /\ fx.call = "CompilerAgent.run"
    /\ fx.pc = "validate"
    /\ UNCHANGED <<gateVars, wavVars, graphVars, mfnVars>>
    /\ IF ~fx.validator_fn
          THEN fx' = [fx EXCEPT !.pc = "done", !.result = [kind |-> "path"]]
          ELSE \E passes \in BOOLEAN :
                  fx' = IF passes
                           THEN [fx EXCEPT !.pc = "done", !.validator_called = TRUE,
                                           !.result = [kind |-> "path"]]
                           ELSE [attempt_failed("Validation failed") EXCEPT
                                    !.validator_called = TRUE]

NextCompiler == CompilerStart \/ CompilerGenerate \/ CompilerExecute \/ CompilerValidate

SpecCompiler == InitCompiler /\ [][NextCompiler]_vars

CompilerDone == fx.call = "CompilerAgent.run" /\ fx.pc = "done"

\* C27: a call of run makes at most MAX_COMPILER_ITERATIONS attempts; a
\* path is returned only from an attempt whose code executed and whose
\* validator call returned; a call that returns no path raises ValueError.
C27_BoundedAttemptsPathOnlyIfValidated ==
    CompilerDone =>
        /\ fx.result.kind = "path" => (fx.executed /\ fx.validator_called)
        /\ fx.result.kind # "path" => fx.result.class = "ValueError"
        /\ has_attr(fx.settings, "MAX_COMPILER_ITERATIONS") =>
              (fx.attempt <= fx.settings.MAX_COMPILER_ITERATIONS
                 /\ fx.llm_calls <= fx.settings.MAX_COMPILER_ITERATIONS)

\* what does hold when a caller has defined MAX_COMPILER_ITERATIONS and
\* passes a validator_fn: the attempts are bounded, a path comes only from
\* an executed and validated attempt, and a call that ends otherwise raises
\* ValueError after the last attempt or passes on the error of the LLM call
CompilerLoopWithSettingsAndValidator ==
    (CompilerDone /\ has_attr(fx.settings, "MAX_COMPILER_ITERATIONS") /\ fx.validator_fn) =>
        /\ fx.attempt <= fx.settings.MAX_COMPILER_ITERATIONS
        /\ fx.llm_calls <= fx.settings.MAX_COMPILER_ITERATIONS
        /\ fx.result.kind = "path" => (fx.executed /\ fx.validator_called)
        /\ fx.result.kind # "path" =>
              \/ fx.result.class = "APIError"
              \/ /\ fx.result.class = "ValueError"
                 /\ ~fx.prompt_template \/ fx.attempt = fx.settings.MAX_COMPILER_ITERATIONS

----------------------------------------------------------------------------
\* Noise gate: the gain ramps.  The gate is built with the default
\* attenuation_db = -96.0, whose attenuation_lin = 10 ** (-4.8) is 0 to
\* the resolution 1/GainOne, and with attack and release lengths that
\* divide GainOne, so that every point of both ramps is exact.

\* attack_samples / release_samples of the gates whose ramps are followed
RampSamples == {1, 2, 2 * 2}

InitGateRamp ==
    /\ WavIdle /\ GraphIdle /\ MfnIdle /\ FxIdle
    /\ \E thr \in ThresholdSet, a \in RampSamples, h \in GateSamplesRange, r \in RampSamples :
          gate = NoiseGate_init(thr, a, h, r, 0)
    /\ prevState = "closed"
    /\ sinceArm = 0
    /\ lastSample = 0
    /\ gateOut = 0

SpecGateRamp == InitGateRamp /\ [][NextGate]_vars

\* process_sample has been called on the gate: the gain of the state is one
\* that was applied to a sample (the constructor's _gain = 1.0 never is)
GateCalled == ~(gate.state = "closed" /\ gate.gain = GainOne /\ lastSample = 0 /\ gate.envelope = 0)

attack_step(g) == (GainOne - g.attenuation_lin) \div g.attack_samples

release_step(g) == (GainOne - g.attenuation_lin) \div g.release_samples

\* C28: with attack_samples >= 1 and release_samples >= 1 the applied gain
\* rises from one sample to the next by at most (1 - attenuation) /
\* attack_samples and falls by at most (1 - attenuation) / release_samples,
\* also on the samples on which the state changes.
C28_GainChangesByAtMostOneStep ==
    [][ (GateCalled /\ gate.attack_samples >= 1 /\ gate.release_samples >= 1) =>
            /\ gate'.gain - gate.gain <= attack_step(gate)
            /\ gate.gain - gate'.gain <= release_step(gate) ]_vars

\* what does hold: on a sample that continues a ramp already under way
\* (samples_in_state >= 1) the gain moves by exactly one step of that ramp
RampContinuesByOneStep ==
    [][ (gate.samples_in_state >= 1 /\ gate.state = "attack" =>
              gate'.gain - gate.gain = attack_step(gate))
        /\ (gate.samples_in_state >= 1 /\ gate.state = "release" =>
              gate.gain - gate'.gain = release_step(gate)) ]_vars

\* and the gain on the first sample of a ramp does not depend on the gain
\* before it: attack restarts one step above the floor, release one step
\* below 1.0
RampRestartsFromItsEnd ==
    [][ (gate.state = "attack" /\ gate.samples_in_state = 0 =>
              gate'.gain = gate.attenuation_lin + attack_step(gate))
        /\ (gate.state = "release" /\ gate.samples_in_state = 0 =>
              gate'.gain = GainOne - release_step(gate)) ]_vars

----------------------------------------------------------------------------
\* Block kernels: what the feedback taps deliver.  Times count samples from
\* 1; mfn.written[id] is everything node id has written into its delay
\* line, one kernel call after the other, and mfn.input the samples fed.

\* the sample node id wrote at time t, zero before its first write
WrittenAt(id, t) ==
    IF t >= 1 /\ t <= Len(mfn.written[id]) THEN mfn.written[id][t] ELSE 0

\* the input sample of time n (a short last block is zero-padded)
InputAt(n) == IF n <= Len(mfn.input) THEN mfn.input[n] ELSE 0

\* the feedback a target is owed at time n when every connection delivers
\* what its source wrote at time n - d, d the delay of the source node
delayed_feedback(g, target_id, n) ==
    SumSeq([ c \in 1 .. Len(g.connections) |->
               LET conn == g.connections[c]
                   source_node_def == g.nodes[NodeIndex(g, conn.source_id)]
               IN  IF conn.target_id = target_id
                      THEN WrittenAt(source_node_def.id, n - source_node_def.delay_samples)
                              * source_node_def.gain * conn.gain
                      ELSE 0 ])

\* every sample every node has written is the input plus the delayed
\* feedback of its time, passed through the chaos stage
WritesFollowDelayedFeedback ==
    \A id \in GraphIds(mfn.graph) :
    \A n \in 1 .. Len(mfn.written[id]) :
        mfn.written[id][n] =
            chaos_saturate(InputAt(n) * mfn.graph.input_gain
                             + delayed_feedback(mfn.graph, id, n),
                           mfn.graph.chaos_level)

\* C29: for every connection whose source node has a delay d with
\* 0 <= d <= buffer_len - block_size, what the kernel adds to the target's
\* accumulator for time n is the value the source wrote at time n - d (zero
\* before its first write) times source gain times connection gain.
C29_TapDeliversValueOfTimeMinusDelay ==
    mfn.pc \in {"running", "returned"} => WritesFollowDelayedFeedback

\* what does hold: the same for the graphs in which every node that feeds a
\* connection has a delay of at least one block
C29_HoldsFromOneBlockOfDelay ==
    (/\ mfn.pc \in {"running", "returned"}
     /\ \A c \in 1 .. Len(mfn.graph.connections) :
           mfn.graph.nodes[NodeIndex(mfn.graph, mfn.graph.connections[c].source_id)].delay_samples
              >= MfnBlockSize)
        => WritesFollowDelayedFeedback

----------------------------------------------------------------------------
\* move_file (tools.py:292-379), one call, followed through its file
\* system operations.  fs maps each resolved path to what is there:
\* "absent", "dir", or the content of a regular file.  An operation of the
\* file system either succeeds or raises.

MovePaths == {"a.wav", "out/b.wav", "/tmp/a.wav", "/private/tmp/a.wav"}

IsFile(entry) == entry \notin {"absent", "dir"}

\* the file systems a call starts on
MoveFileSystems ==
    { [p \in MovePaths |->
         CASE p = "a.wav" -> a
           [] p = "out/b.wav" -> b
           [] p = "/tmp/a.wav" -> t
           [] OTHER -> pt ] :
      a \in {"absent", "dir", "A"}, b \in {"absent", "dir", "B"},
      t \in {"absent", "T"}, pt \in {"absent", "P"} }

\* the files of the same name in /tmp and /private/tmp that are looked for
\* when the source does not exist and source_path is not under /tmp/
alternative_sources(fs, source_path) ==
    IF source_path \in {"/tmp/a.wav", "/private/tmp/a.wav"} THEN <<>>
    ELSE (IF IsFile(fs["/tmp/a.wav"]) THEN <<"/tmp/a.wav">> ELSE <<>>)
            \o (IF IsFile(fs["/private/tmp/a.wav"]) THEN <<"/private/tmp/a.wav">> ELSE <<>>)

InitMove ==
    /\ GateIdle /\ WavIdle /\ GraphIdle /\ MfnIdle
    /\ \E fs \in MoveFileSystems, source_path \in {"a.wav", "/tmp/a.wav"},
          target_path \in {"a.wav", "out/b.wav"}, target_parent \in {"dir", "absent", "file"} :
          /\ target_parent # "dir" => (target_path = "out/b.wav" /\ fs["out/b.wav"] = "absent")
          /\ target_path = "a.wav" => fs["out/b.wav"] = "absent"
          /\ fx = [ call |-> "move_file", pc |-> "called", fs |-> fs, fs0 |-> fs,
                    source_path |-> source_path, target_path |-> target_path,
                    source |-> source_path, target_parent |-> target_parent,
                    result |-> "none" ]

MoveReturn(m, result) == [m EXCEPT !.pc = "done", !.result = result]

\* the checks before the move: the source exists (or a file of its name is
\* found in /tmp or /private/tmp), it is a file, and the parent directory
\* of the target exists or can be created
MoveCheck ==
    /\ fx.call = "move_file"
    /\ fx.pc = "called"
    /\ UNCHANGED <<gateVars, wavVars, graphVars, mfnVars>>
    /\ \E alt \in { alternative_sources(fx.fs, fx.source_path) } :
       \E source \in { IF fx.fs[fx.source_path] = "absent" /\ alt # <<>>
                          THEN alt[1] ELSE fx.source_path } :
       \E mkdir_ok \in BOOLEAN :
          fx' = IF fx.fs[source] = "absent"
                   THEN MoveReturn(fx, "Error: Source file does not exist")
                ELSE IF ~IsFile(fx.fs[source])
                   THEN MoveReturn(fx, "Error: Source path is not a file")
                ELSE IF fx.target_parent = "absent" /\ ~mkdir_ok
                   THEN MoveReturn(fx, "Error creating target directory")
                ELSE IF fx.target_parent = "file"
                   THEN MoveReturn(fx, "Error: Target parent path exists but is not a directory")
                ELSE [fx EXCEPT !.pc = "unlink_target", !.source = source,
                                !.target_parent = "dir"]

\* if target.exists(): target.unlink()
MoveUnlinkTarget ==
    /\ fx.call = "move_file"
    /\ fx.pc = "unlink_target"
    /\ UNCHANGED <<gateVars, wavVars, graphVars, mfnVars>>
    /\ IF fx.fs[fx.target_path] = "absent"
          THEN fx' = [fx EXCEPT !.pc = "copy"]
          ELSE IF fx.fs[fx.target_path] = "dir"
                  THEN fx' = MoveReturn(fx, "Error: Permission denied during file move")
                  ELSE \E unlink_ok \in BOOLEAN :
                          fx' = IF unlink_ok
                                   THEN [fx EXCEPT !.pc = "copy",
                                                   !.fs[fx.target_path] = "absent"]
                                   ELSE MoveReturn(fx, "Error: Permission denied during file move")

\* shutil.copy2(source, target): the source is gone (FileNotFoundError), the
\* copy succeeds, or it fails part way and leaves an incomplete target
MoveCopy ==
    /\ fx.call = "move_file"
    /\ fx.pc = "copy"
    /\ UNCHANGED <<gateVars, wavVars, graphVars, mfnVars>>
    /\ IF ~IsFile(fx.fs[fx.source])
          THEN fx' = MoveReturn(fx, "OSError moving file")
          ELSE \E copy_ok \in BOOLEAN :
                  fx' = IF copy_ok
                           THEN [fx EXCEPT !.pc = "unlink_source",
                                           !.fs[fx.target_path] = fx.fs[fx.source]]
                           ELSE MoveReturn([fx EXCEPT !.fs[fx.target_path] = "partial"],
                                           "OSError moving file")

\* source.unlink() and the final check that the target exists
MoveUnlinkSource ==
    /\ fx.call = "move_file"
    /\ fx.pc = "unlink_source"
    /\ UNCHANGED <<gateVars, wavVars, graphVars, mfnVars>>
    /\ \E unlink_ok \in BOOLEAN :
          fx' = IF ~unlink_ok
                   THEN MoveReturn(fx, "Error: Permission denied during file move")
                   ELSE LET m == [fx EXCEPT !.fs[fx.source] = "absent"]
                        IN  IF m.fs[fx.target_path] = "absent"
                               THEN MoveReturn(m, "Error: File move operation failed")
                               ELSE MoveReturn(m, "File moved successfully")

NextMove == MoveCheck \/ MoveUnlinkTarget \/ MoveCopy \/ MoveUnlinkSource

SpecMove == InitMove /\ [][NextMove]_vars

MoveDone == fx.call = "move_file" /\ fx.pc = "done"

\* the content of the file the call was asked to move is at the source path
\* or at the target path
SourceContentKept ==
    \/ fx.fs[fx.source_path] = fx.fs0[fx.source_path]
    \/ fx.fs[fx.target_path] = fx.fs0[fx.source_path]

\* C30: after any call of move_file on an existing source file, whatever it
\* returns and also when source and target are the same path or the target
\* exists, the source file's content is at the source or the target path.
C30_SourceContentNeverLost ==
    (MoveDone /\ IsFile(fx.fs0[fx.source_path])) => SourceContentKept

\* what does hold: the same for a target path other than the source path
ContentKeptWhenPathsDiffer ==
    (MoveDone /\ IsFile(fx.fs0[fx.source_path]) /\ fx.source_path # fx.target_path)
        => SourceContentKept

\* and a call that reports success has put the content of the file it
\* moved at the target and removed it from where it was
SuccessMeansMoved ==
    (MoveDone /\ fx.result = "File moved successfully") =>
        /\ fx.fs[fx.target_path] = fx.fs0[fx.source]
        /\ fx.fs[fx.source] = "absent"
        /\ fx.source # fx.target_path

====
